---- MODULE Spec2Model ----
(***************************************************************************)
(* homebridge-zwave: the Z-Wave node/value cache (lib/ZWave.js), its event *)
(* emitter, and the characteristic bindings of lib/AccessoryManager.js.    *)
(*                                                                         *)
(* One action is one synchronous JavaScript call chain: a driver event     *)
(* handler together with every listener it dispatches to, or one HomeKit   *)
(* get/set hook.  The variables op, cb, pushes, cmds, lookups, filtered,   *)
(* derived, emitted, invoked, observed, found and threw describe what the  *)
(* LAST call chain did (every action resets them), so "exactly once" and   *)
(* "not called" are state predicates.                                      *)
(***************************************************************************)
EXTENDS Integers, Sequences, FiniteSets, TLC

VARIABLES
    nodes,        \* ZWave._nodes: node id -> node record (DOMAIN = ids present)
    zready,       \* ZWave._ready
    readyL,       \* listeners on 'node.ready', in registration order
    valueL,       \* listeners on 'node.value.updated', in registration order
    config,       \* AccessoryManager._accessoryConfig per manager (fixed by Init)
    network,      \* what the devices of the Z-Wave network expose (fixed by Init)
    initialized,  \* initializeAccessory has run for the manager
    readyState,   \* AccessoryManager._accessoryReadyState
    chars,        \* characteristic.value of every HAP characteristic
    op,           \* the call chain that produced this state
    cb,           \* invocations of the get/set completion callback
    pushes,       \* characteristic.updateValue calls, in order
    cmds,         \* outbound ozw.setValue calls, in order
    lookups,      \* number of ZWave.findNodeValue calls
    filtered,     \* number of set-side valueFilter calls
    derived,      \* 'Status Low Battery' values computed by change handlers
    emitted,      \* the arguments of the EventEmitter.emit call, if one was made
    invoked,      \* the listeners whose callback was called, in order
    observed,     \* per value listener called: its payload and the cached raw value
    found,        \* what a direct ZWave.findNodeValue call returned
    threw,        \* the call chain ended with an uncaught TypeError
    events        \* number of call chains so far

vars == <<nodes, zready, readyL, valueL, config, network, initialized, readyState,
          chars, op, cb, pushes, cmds, lookups, filtered, derived, emitted,
          invoked, observed, found, threw, events>>

-----------------------------------------------------------------------------
(* JavaScript values.  Every value carries its type tag; strings are       *)
(* sequences of words so that String.prototype.includes is computed.       *)

B(b) == [t |-> "bool", b |-> b, n |-> 0, s |-> <<>>]
N(n) == [t |-> "num", b |-> FALSE, n |-> n, s |-> <<>>]
S(s) == [t |-> "str", b |-> FALSE, n |-> 0, s |-> s]
NaN == [t |-> "nan", b |-> FALSE, n |-> 0, s |-> <<>>]
Undef == [t |-> "undef", b |-> FALSE, n |-> 0, s |-> <<>>]

\* a !== b
StrictNeq(a, b) == a.t = "nan" \/ a # b

\* Boolean(x)
JsBoolean(x) ==
    CASE x.t = "bool" -> x
      [] x.t = "num" -> B(x.n # 0)
      [] x.t = "str" -> B(x.s # <<>>)
      [] OTHER -> B(FALSE)

\* Number(x); the strings of the model are not numeric literals
JsNumber(x) ==
    CASE x.t = "bool" -> N(IF x.b THEN 1 ELSE 0)
      [] x.t = "num" -> x
      [] x.t = "str" -> IF x.s = <<>> THEN N(0) ELSE NaN
      [] OTHER -> NaN

\* a < b on numbers (false when either side is NaN)
JsLess(a, b) == a.t = "num" /\ b.t = "num" /\ a.n < b.n

\* a > b on numbers
JsGreater(a, b) == JsLess(b, a)

\* x.includes(needle) is a TypeError unless x is a string
CanInclude(x) == x.t = "str"

\* x.includes(needle), x a string: needle occurs as a contiguous run of words
Includes(x, needle) ==
    \E i \in 1..(Len(x.s) - Len(needle) + 1) :
        SubSeq(x.s, i, i + Len(needle) - 1) = needle

-----------------------------------------------------------------------------
(* Text of value ids: a sequence of one-character strings.  The token      *)
(* "undefined" stands for the text of an undefined template argument.      *)

DigitChar == <<"0", "1", "2", "3", "4", "5", "6", "7", "8", "9">>

RECURSIVE Digits(_)
Digits(n) ==
    IF n < 10 THEN <<DigitChar[n + 1]>>
    ELSE Digits(n \div 10) \o <<DigitChar[(n % 10) + 1]>>

\* `${x}` inside a template literal
JsToString(x) == IF x.t = "num" THEN Digits(x.n) ELSE <<"undefined">>

\* x || d
OrDefaultAlways(x, d) == d

OrDefault(x, d) ==
    IF x.t = "undef" \/ (x.t = "num" /\ x.n = 0) THEN d ELSE x

\* ZWave.generateNodeValueId
generateNodeValueIdSwapped(nodeId, commandClass, valueInstance, valueIndex) ==
    JsToString(nodeId) \o <<"-">> \o JsToString(commandClass) \o <<"-">>
        \o JsToString(OrDefault(valueIndex, N(0))) \o <<"-">>
        \o JsToString(OrDefault(valueInstance, N(1)))

generateNodeValueId(nodeId, commandClass, valueInstance, valueIndex) ==
    JsToString(nodeId) \o <<"-">> \o JsToString(commandClass) \o <<"-">>
        \o JsToString(OrDefault(valueInstance, N(1))) \o <<"-">>
        \o JsToString(OrDefault(valueIndex, N(0)))

\* id.split('-')
RECURSIVE Split(_)
Split(s) ==
    IF \A i \in 1..Len(s) : s[i] # "-" THEN <<s>>
    ELSE LET k == CHOOSE i \in 1..Len(s) :
                      s[i] = "-" /\ \A j \in 1..(i - 1) : s[j] # "-"
         IN <<SubSeq(s, 1, k - 1)>> \o Split(SubSeq(s, k + 1, Len(s)))

\* The number a decimal text denotes (how the driver reads a setValue argument)
DigitVal(c) == CHOOSE d \in 0..9 : DigitChar[d + 1] = c

RECURSIVE TextToNum(_)
TextToNum(s) ==
    IF Len(s) = 0 THEN 0
    ELSE 10 * TextToNum(SubSeq(s, 1, Len(s) - 1)) + DigitVal(s[Len(s)])

-----------------------------------------------------------------------------
(* Program constants (lib/ZWave.js, lib/AccessoryManager.js)               *)

COMMAND_CLASS_SWITCH_BINARY == 37
COMMAND_CLASS_SWITCH_MULTILEVEL == 38
COMMAND_CLASS_SENSOR_MULTILEVEL == 49
COMMAND_CLASS_METER == 50
COMMAND_CLASS_CONFIGURATION == 112
COMMAND_CLASS_ALARM == 113
COMMAND_CLASS_MANUFACTURER_SPECIFIC == 114
COMMAND_CLASS_BATTERY == 128
ALARM_INDEX_HOME_SECURITY == 7
BATTERY_INDEX_LEVEL == 0
CONFIGURATION_INDEX_CURRENT_POWER_MODE == 9
CONFIGURATION_INDEX_LOW_BATTERY == 39
MANUFACTURER_SPECIFIC_INDEX_SERIAL_NUMBER == 4
METER_INDEX_ELECTRIC_INSTANT_POWER == 2
SENSOR_MULTILEVEL_INDEX_HUMIDITY == 5
SENSOR_MULTILEVEL_INDEX_LUMINANCE == 3
SENSOR_MULTILEVEL_INDEX_TEMPERATURE == 1
SWITCH_BINARY_INDEX_SWITCH == 0
READY_STATE_UNREADY == 0
READY_STATE_READY == 1

-----------------------------------------------------------------------------
(* Bounds: the managers, the nodes and the values the driver reports.      *)

\* Length of the explored histories (driver events and HomeKit calls)
MaxEvents == 7

Accessories == {"a1", "a2"}

\* The node ids the driver reports: those of the network's devices
NodeIds == { d.node : d \in network }

BatteryPower == S(<<"Battery", "power">>)
PluggedIn == S(<<"Plugged", "in">>)

\* What the devices of the modelled network expose: node 1 is a battery
\* powered sensor, node 2 a binary switch that reports a serial number.
DeviceValues ==
    { [node |-> 1, class_id |-> COMMAND_CLASS_BATTERY, instance |-> 1,
       index |-> BATTERY_INDEX_LEVEL, label |-> "Battery Level",
       raws |-> {N(10), N(30)}],
      [node |-> 1, class_id |-> COMMAND_CLASS_CONFIGURATION, instance |-> 1,
       index |-> CONFIGURATION_INDEX_CURRENT_POWER_MODE,
       label |-> "Current Power Mode", raws |-> {BatteryPower, PluggedIn}],
      [node |-> 1, class_id |-> COMMAND_CLASS_CONFIGURATION, instance |-> 1,
       index |-> CONFIGURATION_INDEX_LOW_BATTERY,
       label |-> "Low Battery", raws |-> {N(20)}],
      [node |-> 2, class_id |-> COMMAND_CLASS_SWITCH_BINARY, instance |-> 1,
       index |-> SWITCH_BINARY_INDEX_SWITCH, label |-> "Switch",
       raws |-> {B(TRUE), B(FALSE)}],
      [node |-> 2, class_id |-> COMMAND_CLASS_MANUFACTURER_SPECIFIC,
       instance |-> 1, index |-> MANUFACTURER_SPECIFIC_INDEX_SERIAL_NUMBER,
       label |-> "Serial Number", raws |-> {S(<<"SN1">>)}] }

\* nodeData of the driver's "node ready" event
NodeDatas == { [manufacturer |-> S(<<"Aeotec">>), product |-> S(<<"ZW100">>)] }

\* What HomeKit passes to a set hook of a boolean characteristic
SetInputs == {B(TRUE), B(FALSE), N(1)}

\* What HomeKit passes to the set hook of Brightness (a percentage)
BrightnessInputs == {N(0), N(1), N(50), N(100)}

SetInputsOf(char) == IF char = "Brightness" THEN BrightnessInputs ELSE SetInputs

-----------------------------------------------------------------------------
(* The value object of a driver "value added" / "value changed" event.     *)
(* openzwave-shared builds value_id as "node-class-instance-index".        *)

OzwValue(d, raw) ==
    [value_id |-> Digits(d.node) \o <<"-">> \o Digits(d.class_id) \o <<"-">>
                    \o Digits(d.instance) \o <<"-">> \o Digits(d.index),
     node_id |-> N(d.node), class_id |-> N(d.class_id),
     instance |-> N(d.instance), index |-> N(d.index),
     label |-> d.label, value |-> raw]

-----------------------------------------------------------------------------
(* The node/value cache.  node.values is a Map: a sequence in insertion    *)
(* order, at most one entry per key.                                       *)

\* Map.prototype.get: <<>> when the key is absent
MapGetFirst(m, key) == IF m = <<>> THEN <<>> ELSE <<m[1]>>

MapGet(m, key) == SelectSeq(m, LAMBDA e : e.value_id = key)

\* Map.prototype.has
MapHasNever(m, key) == FALSE

MapHas(m, key) == \E i \in 1..Len(m) : m[i].value_id = key

\* Map.prototype.set: an existing key keeps its position
MapSetAppend(m, key, e) == Append(m, e)

MapSet(m, key, e) ==
    IF MapHas(m, key)
    THEN [i \in 1..Len(m) |-> IF m[i].value_id = key THEN e ELSE m[i]]
    ELSE Append(m, e)

\* Object.assign({ instance: 1 }, criteria)
WithDefaultInstanceNone(criteria) == criteria

WithDefaultInstance(criteria) ==
    [k \in {"instance"} \cup DOMAIN criteria |->
        IF k \in DOMAIN criteria THEN criteria[k] ELSE N(1)]

\* value => every criteria entry equals (===) the value's field
MatchesAny(value, criteria) == TRUE

Matches(value, criteria) ==
    \A k \in DOMAIN criteria : ~StrictNeq(value[k], criteria[k])

\* Array.prototype.find: <<>> for undefined, else the first match
LastMatch(m, criteria) ==
    LET hits == SelectSeq(m, LAMBDA e : Matches(e, criteria))
    IN IF hits = <<>> THEN <<>> ELSE <<hits[Len(hits)]>>

FirstMatch(m, criteria) ==
    LET hits == SelectSeq(m, LAMBDA e : Matches(e, criteria))
    IN IF hits = <<>> THEN <<>> ELSE <<hits[1]>>

\* ZWave.findNodeValue faults when the node is unknown (node.values of undefined)
findNodeValueThrows(store, nodeId) == nodeId \notin DOMAIN store

\* ZWave.findNodeValue on a known node
findNodeValue(store, nodeId, criteria) ==
    FirstMatch(store[nodeId].values, WithDefaultInstance(criteria))

-----------------------------------------------------------------------------
(* Characteristic bindings of lib/AccessoryManager.js                      *)

CharNames == {"On", "BatteryLevel", "ChargingState", "StatusLowBattery",
              "CurrentTemperature", "Manufacturer", "Model", "SerialNumber",
              "Brightness", "MotionDetected", "StatusTampered", "OutletInUse",
              "CurrentRelativeHumidity", "CurrentAmbientLightLevel"}

Unknown == S(<<"Unknown">>)

\* chargingStateCharacteristicValueFilter
chargingStateFilter(value) ==
    IF Includes(value, <<"Battery", "power">>) THEN N(0) ELSE N(1)

\* motionDetectedValueFilter
motionDetectedValueFilter(value) == B(Includes(value, <<"Motion", "Detected">>))

\* statusTamperedValueFilter
statusTamperedValueFilter(value) ==
    IF Includes(value, <<"Tampering">>) THEN N(1) ELSE N(0)

\* The filter of 'Outlet In Use': value => Number(value) > 0
outletInUseFilter(value) == B(JsGreater(JsNumber(value), N(0)))

\* The set filter of the dimmable light's 'On': reads the value the
\* Brightness characteristic holds
onCharacteristicValueSet(value, brightness) ==
    IF JsBoolean(value).b
    THEN IF brightness = N(1) THEN N(99)
         ELSE IF brightness = N(100) THEN N(99)
         ELSE brightness
    ELSE N(0)

\* A value filter faults when it calls includes on something not a string
FilterThrows(f, x) ==
    f \in {"chargingState", "motionDetected", "statusTampered"} /\ ~CanInclude(x)

\* valueFilter(value)
ApplyFilter(f, x) ==
    CASE f = "Boolean" -> JsBoolean(x)
      [] f = "Number" -> JsNumber(x)
      [] f = "chargingState" -> chargingStateFilter(x)
      [] f = "motionDetected" -> motionDetectedValueFilter(x)
      [] f = "statusTampered" -> statusTamperedValueFilter(x)
      [] f = "outletInUse" -> outletInUseFilter(x)
      [] OTHER -> x

\* valueFilter(value) of a set hook; the dimmable light's filter closes over
\* the Brightness characteristic
ApplySetFilter(f, x, ch) ==
    IF f = "onCharacteristicValueSet"
    THEN onCharacteristicValueSet(x, ch["Brightness"])
    ELSE ApplyFilter(f, x)

\* The .on('get', ...) bindings a service configures.  resolver "value" is
\* _makeZwaveNodeValueResolver(criteria); "lowBattery" is the resolver of
\* 'Status Low Battery'.
GetBindings(service) ==
    CASE service = "Switch" ->
            { [char |-> "On", resolver |-> "value",
               commandClass |-> COMMAND_CLASS_SWITCH_BINARY,
               valueIndex |-> SWITCH_BINARY_INDEX_SWITCH, filter |-> "Boolean"] }
      [] service = "Battery" ->
            { [char |-> "BatteryLevel", resolver |-> "value",
               commandClass |-> COMMAND_CLASS_BATTERY,
               valueIndex |-> BATTERY_INDEX_LEVEL, filter |-> "Number"],
              [char |-> "ChargingState", resolver |-> "value",
               commandClass |-> COMMAND_CLASS_CONFIGURATION,
               valueIndex |-> CONFIGURATION_INDEX_CURRENT_POWER_MODE,
               filter |-> "chargingState"],
              [char |-> "StatusLowBattery", resolver |-> "lowBattery",
               commandClass |-> COMMAND_CLASS_BATTERY,
               valueIndex |-> BATTERY_INDEX_LEVEL, filter |-> "identity"] }
      [] service = "TemperatureSensor" ->
            { [char |-> "CurrentTemperature", resolver |-> "value",
               commandClass |-> COMMAND_CLASS_SENSOR_MULTILEVEL,
               valueIndex |-> SENSOR_MULTILEVEL_INDEX_TEMPERATURE,
               filter |-> "Number"] }
      [] service = "HumiditySensor" ->
            { [char |-> "CurrentRelativeHumidity", resolver |-> "value",
               commandClass |-> COMMAND_CLASS_SENSOR_MULTILEVEL,
               valueIndex |-> SENSOR_MULTILEVEL_INDEX_HUMIDITY,
               filter |-> "Number"] }
      [] service = "LightSensor" ->
            { [char |-> "CurrentAmbientLightLevel", resolver |-> "value",
               commandClass |-> COMMAND_CLASS_SENSOR_MULTILEVEL,
               valueIndex |-> SENSOR_MULTILEVEL_INDEX_LUMINANCE,
               filter |-> "Number"] }
      [] service = "MotionSensor" ->
            { [char |-> "MotionDetected", resolver |-> "value",
               commandClass |-> COMMAND_CLASS_ALARM,
               valueIndex |-> ALARM_INDEX_HOME_SECURITY,
               filter |-> "motionDetected"],
              [char |-> "StatusTampered", resolver |-> "value",
               commandClass |-> COMMAND_CLASS_ALARM,
               valueIndex |-> ALARM_INDEX_HOME_SECURITY,
               filter |-> "statusTampered"] }
      [] service = "Outlet" ->
            { [char |-> "On", resolver |-> "value",
               commandClass |-> COMMAND_CLASS_SWITCH_BINARY,
               valueIndex |-> SWITCH_BINARY_INDEX_SWITCH, filter |-> "Boolean"],
              [char |-> "OutletInUse", resolver |-> "value",
               commandClass |-> COMMAND_CLASS_METER,
               valueIndex |-> METER_INDEX_ELECTRIC_INSTANT_POWER,
               filter |-> "outletInUse"] }
      [] service = "Dimmable" ->
            { [char |-> "On", resolver |-> "value",
               commandClass |-> COMMAND_CLASS_SWITCH_MULTILEVEL,
               valueIndex |-> SWITCH_BINARY_INDEX_SWITCH, filter |-> "Boolean"],
              [char |-> "Brightness", resolver |-> "value",
               commandClass |-> COMMAND_CLASS_SWITCH_MULTILEVEL,
               valueIndex |-> SWITCH_BINARY_INDEX_SWITCH, filter |-> "Number"] }
      [] OTHER -> {}

\* The .on('set', ...) bindings a service configures
SetBindings(service) ==
    CASE service = "Switch" ->
            { [char |-> "On", commandClass |-> COMMAND_CLASS_SWITCH_BINARY,
               valueIndex |-> SWITCH_BINARY_INDEX_SWITCH, filter |-> "Boolean"] }
      [] service = "Outlet" ->
            { [char |-> "On", commandClass |-> COMMAND_CLASS_SWITCH_BINARY,
               valueIndex |-> SWITCH_BINARY_INDEX_SWITCH, filter |-> "Boolean"] }
      [] service = "Dimmable" ->
            { [char |-> "On", commandClass |-> COMMAND_CLASS_SWITCH_MULTILEVEL,
               valueIndex |-> SWITCH_BINARY_INDEX_SWITCH,
               filter |-> "onCharacteristicValueSet"],
              [char |-> "Brightness",
               commandClass |-> COMMAND_CLASS_SWITCH_MULTILEVEL,
               valueIndex |-> SWITCH_BINARY_INDEX_SWITCH, filter |-> "Number"] }
      [] OTHER -> {}

\* _updateCharacteristicValueOnZwaveNodeValueUpdated: the listener it registers
GenericListener(a, nodeId, char, commandClass, valueIndex, filter) ==
    [acc |-> a, kind |-> "generic", char |-> char, filter |-> filter,
     nodeId |-> nodeId,
     vid |-> generateNodeValueId(N(nodeId), N(commandClass), Undef, N(valueIndex))]

\* The listeners a service registers with onNodeValueChanged, in order
ServiceListeners(a, nodeId, service) ==
    CASE service = "Switch" ->
            << GenericListener(a, nodeId, "On", COMMAND_CLASS_SWITCH_BINARY,
                               SWITCH_BINARY_INDEX_SWITCH, "Boolean") >>
      [] service = "Battery" ->
            << [acc |-> a, kind |-> "battery", char |-> "BatteryLevel",
                filter |-> "Number", nodeId |-> nodeId,
                vid |-> generateNodeValueId(N(nodeId), N(COMMAND_CLASS_BATTERY),
                                            Undef, N(BATTERY_INDEX_LEVEL))],
               GenericListener(a, nodeId, "ChargingState",
                               COMMAND_CLASS_CONFIGURATION,
                               CONFIGURATION_INDEX_CURRENT_POWER_MODE,
                               "chargingState") >>
      [] service = "TemperatureSensor" ->
            << GenericListener(a, nodeId, "CurrentTemperature",
                               COMMAND_CLASS_SENSOR_MULTILEVEL,
                               SENSOR_MULTILEVEL_INDEX_TEMPERATURE, "Number") >>
      [] service = "HumiditySensor" ->
            << GenericListener(a, nodeId, "CurrentRelativeHumidity",
                               COMMAND_CLASS_SENSOR_MULTILEVEL,
                               SENSOR_MULTILEVEL_INDEX_HUMIDITY, "Number") >>
      [] service = "LightSensor" ->
            << GenericListener(a, nodeId, "CurrentAmbientLightLevel",
                               COMMAND_CLASS_SENSOR_MULTILEVEL,
                               SENSOR_MULTILEVEL_INDEX_LUMINANCE, "Number") >>
      [] service = "MotionSensor" ->
            << [acc |-> a, kind |-> "motion", char |-> "MotionDetected",
                filter |-> "motionDetected", nodeId |-> nodeId,
                vid |-> generateNodeValueId(N(nodeId), N(COMMAND_CLASS_ALARM),
                                            Undef, N(ALARM_INDEX_HOME_SECURITY))] >>
      [] service = "Outlet" ->
            << GenericListener(a, nodeId, "On", COMMAND_CLASS_SWITCH_BINARY,
                               SWITCH_BINARY_INDEX_SWITCH, "Boolean"),
               GenericListener(a, nodeId, "OutletInUse", COMMAND_CLASS_METER,
                               METER_INDEX_ELECTRIC_INSTANT_POWER,
                               "outletInUse") >>
      [] service = "Dimmable" -> <<>>
      [] OTHER -> <<>>

RECURSIVE AllListeners(_, _, _)
AllListeners(a, nodeId, services) ==
    IF services = <<>> THEN <<>>
    ELSE ServiceListeners(a, nodeId, Head(services))
            \o AllListeners(a, nodeId, Tail(services))

AllGetBindings(services) ==
    UNION { GetBindings(services[i]) : i \in 1..Len(services) }

AllSetBindings(services) ==
    UNION { SetBindings(services[i]) : i \in 1..Len(services) }

-----------------------------------------------------------------------------
(* What one call chain has done so far                                     *)

Ctx(rs, ch) ==
    [ready |-> rs, chars |-> ch, pushes |-> <<>>, lookups |-> 0,
     derived |-> <<>>, emitted |-> <<>>, invoked |-> <<>>, found |-> <<>>,
     cmds |-> <<>>, observed |-> <<>>, threw |-> FALSE]

\* characteristic.updateValue(v): stores v and notifies HomeKit; the 'set'
\* hook of the characteristic is not run
PushViaSet(ctx, a, c, v) ==
    [ctx EXCEPT !.chars[a][c] = v,
                !.pushes = Append(@, [acc |-> a, char |-> c, value |-> v]),
                !.cmds = Append(@, [nodeId |-> <<>>, commandClass |-> <<>>,
                                    valueInstance |-> <<>>, valueIndex |-> <<>>,
                                    value |-> v])]

Push(ctx, a, c, v) ==
    [ctx EXCEPT !.chars[a][c] = v,
                !.pushes = Append(@, [acc |-> a, char |-> c, value |-> v])]

Throw(ctx) == [ctx EXCEPT !.threw = TRUE]

Looked(ctx, k) == [ctx EXCEPT !.lookups = @ + k]

\* this._eventEmitter.emit(event, ...args)
EmitNothing(ctx, args) == ctx

Emit(ctx, args) == [ctx EXCEPT !.emitted = args]

\* callback(...) inside a listener wrapper
Invoke(ctx, l) == [ctx EXCEPT !.invoked = Append(@, l)]

\* What a value listener is handed and what the cache holds for that id
\* when the listener starts
Observe(ctx, store, nodeId, id, value) ==
    [ctx EXCEPT !.observed =
        Append(@, [vid |-> id, payload |-> value,
                   stored |-> IF nodeId \in DOMAIN store
                              THEN MapGet(store[nodeId].values, id)
                              ELSE <<>>])]

\* _configureAccessoryInformationService(manufacturer, model, serialNumber):
\* an undefined argument takes the default 'Unknown'
configureAccessoryInformationService(ctx, a, manufacturer, model, serialNumber) ==
    LET dflt(x) == IF x.t = "undef" THEN Unknown ELSE x
    IN Push(Push(Push(ctx, a, "Manufacturer", dflt(manufacturer)),
                 a, "Model", dflt(model)),
            a, "SerialNumber", dflt(serialNumber))

PowerModeCriteria ==
    [class_id |-> N(COMMAND_CLASS_CONFIGURATION),
     index |-> N(CONFIGURATION_INDEX_CURRENT_POWER_MODE)]

LowBatteryCriteria ==
    [class_id |-> N(COMMAND_CLASS_CONFIGURATION),
     index |-> N(CONFIGURATION_INDEX_LOW_BATTERY)]

BatteryLevelCriteria ==
    [class_id |-> N(COMMAND_CLASS_BATTERY), index |-> N(BATTERY_INDEX_LEVEL)]

SerialNumberCriteria ==
    [class_id |-> N(COMMAND_CLASS_MANUFACTURER_SPECIFIC),
     index |-> N(MANUFACTURER_SPECIFIC_INDEX_SERIAL_NUMBER)]

\* const { value } = findNodeValue(...) faults on an unknown node and on
\* an undefined result
DestructureThrows(store, nodeId, criteria) ==
    \/ findNodeValueThrows(store, nodeId)
    \/ findNodeValue(store, nodeId, criteria) = <<>>

\* the value it binds otherwise
Destructured(store, nodeId, criteria) ==
    findNodeValue(store, nodeId, criteria)[1].value

\* The battery-level listener's computation of lowBattery
handlerLowBatteryIgnoringMode(value, currentPowerMode, minBatteryLevel) ==
    IF JsLess(value, JsNumber(minBatteryLevel)) THEN N(1) ELSE N(0)

handlerLowBattery(value, currentPowerMode, minBatteryLevel) ==
    LET isCharging == JsBoolean(chargingStateFilter(currentPowerMode)).b
    IN IF ~isCharging /\ JsLess(value, JsNumber(minBatteryLevel))
       THEN N(1) ELSE N(0)

\* The listener _configureBatteryService binds to the battery level value
batteryLevelListener(l, store, value, ctx) ==
    LET level == JsNumber(value)
        c1 == Push(ctx, l.acc, "BatteryLevel", level)
    IN IF DestructureThrows(store, l.nodeId, PowerModeCriteria)
       THEN Throw(Looked(c1, 1))
       ELSE IF DestructureThrows(store, l.nodeId, LowBatteryCriteria)
       THEN Throw(Looked(c1, 2))
       ELSE LET mode == Destructured(store, l.nodeId, PowerModeCriteria)
                min == Destructured(store, l.nodeId, LowBatteryCriteria)
                c2 == Looked(c1, 2)
            IN IF ~CanInclude(mode) THEN Throw(c2)
               ELSE LET lowBattery == handlerLowBattery(level, mode, min)
                        c3 == [c2 EXCEPT !.derived = Append(@, lowBattery)]
                    IN IF StrictNeq(c3.chars[l.acc]["StatusLowBattery"], lowBattery)
                       THEN Push(c3, l.acc, "StatusLowBattery", lowBattery)
                       ELSE c3

\* The listener _configureMotionSensorService binds to the home security
\* value: both characteristics are recomputed from the one payload and each
\* is updated only when its value differs
motionSensorListenerUnguarded(l, value, ctx) ==
    IF ~CanInclude(value) THEN Throw(ctx)
    ELSE LET motionDetected == motionDetectedValueFilter(value)
             statusTampered == statusTamperedValueFilter(value)
             c1 == [ctx EXCEPT !.derived =
                       @ \o <<motionDetected, statusTampered>>]
         IN Push(Push(c1, l.acc, "MotionDetected", motionDetected),
                 l.acc, "StatusTampered", statusTampered)

motionSensorListener(l, value, ctx) ==
    IF ~CanInclude(value) THEN Throw(ctx)
    ELSE LET motionDetected == motionDetectedValueFilter(value)
             statusTampered == statusTamperedValueFilter(value)
             c1 == [ctx EXCEPT !.derived =
                       @ \o <<motionDetected, statusTampered>>]
             c2 == IF StrictNeq(c1.chars[l.acc]["MotionDetected"], motionDetected)
                   THEN Push(c1, l.acc, "MotionDetected", motionDetected)
                   ELSE c1
         IN IF StrictNeq(c2.chars[l.acc]["StatusTampered"], statusTampered)
            THEN Push(c2, l.acc, "StatusTampered", statusTampered)
            ELSE c2

\* The listener _updateCharacteristicValueOnZwaveNodeValueUpdated binds
genericListenerSilent(l, value, ctx) ==
    IF FilterThrows(l.filter, value) THEN Throw(ctx)
    ELSE ctx

genericListener(l, value, ctx) ==
    IF FilterThrows(l.filter, value) THEN Throw(ctx)
    ELSE Push(ctx, l.acc, l.char, ApplyFilter(l.filter, value))

\* ZWave.onNodeValueChanged: the wrapper calls back only for its own id
onNodeValueChangedAnyId(l, store, updatedNodeValueId, value, ctx) ==
    LET c0 == Observe(Invoke(ctx, l), store, l.nodeId, updatedNodeValueId, value)
    IN IF l.kind = "battery" THEN batteryLevelListener(l, store, value, c0)
       ELSE IF l.kind = "motion" THEN motionSensorListener(l, value, c0)
       ELSE genericListener(l, value, c0)

onNodeValueChanged(l, store, updatedNodeValueId, value, ctx) ==
    IF updatedNodeValueId # l.vid THEN ctx
    ELSE LET c0 == Observe(Invoke(ctx, l), store, l.nodeId,
                           updatedNodeValueId, value)
         IN IF l.kind = "battery" THEN batteryLevelListener(l, store, value, c0)
            ELSE IF l.kind = "motion" THEN motionSensorListener(l, value, c0)
            ELSE genericListener(l, value, c0)

\* EventEmitter.emit('node.value.updated', id, value): listeners run in
\* registration order; an exception ends the emit
RECURSIVE emitValueUpdated(_, _, _, _, _)
emitValueUpdated(ls, store, id, value, ctx) ==
    IF ls = <<>> \/ ctx.threw THEN ctx
    ELSE emitValueUpdated(Tail(ls), store, id, value,
                          onNodeValueChanged(Head(ls), store, id, value, ctx))

\* The callback initializeAccessory passes to onNodeReady
nodeReadyCallbackToggling(l, store, node, ctx) ==
    LET c1 == [ctx EXCEPT !.ready[l.acc] =
                  IF @ = READY_STATE_READY THEN READY_STATE_UNREADY
                  ELSE READY_STATE_READY]
    IN IF DestructureThrows(store, l.nodeId, SerialNumberCriteria)
       THEN Throw(Looked(c1, 1))
       ELSE configureAccessoryInformationService(
                Looked(c1, 1), l.acc, node.manufacturer, node.product,
                Destructured(store, l.nodeId, SerialNumberCriteria))

nodeReadyCallback(l, store, node, ctx) ==
    LET c1 == [ctx EXCEPT !.ready[l.acc] = READY_STATE_READY]
    IN IF DestructureThrows(store, l.nodeId, SerialNumberCriteria)
       THEN Throw(Looked(c1, 1))
       ELSE configureAccessoryInformationService(
                Looked(c1, 1), l.acc, node.manufacturer, node.product,
                Destructured(store, l.nodeId, SerialNumberCriteria))

\* ZWave.onNodeReady: the wrapper calls back only for its own node id
onNodeReadyAnyNode(l, store, node, ctx) ==
    nodeReadyCallback(l, store, node, Invoke(ctx, l))

onNodeReady(l, store, node, ctx) ==
    IF StrictNeq(N(l.nodeId), node.id) THEN ctx
    ELSE nodeReadyCallback(l, store, node, Invoke(ctx, l))

\* EventEmitter.emit('node.ready', node)
RECURSIVE emitNodeReady(_, _, _, _)
emitNodeReady(ls, store, node, ctx) ==
    IF ls = <<>> \/ ctx.threw THEN ctx
    ELSE emitNodeReady(Tail(ls), store, node,
                       onNodeReady(Head(ls), store, node, ctx))

-----------------------------------------------------------------------------
(* State after construction: an empty cache, no listeners, every manager   *)
(* UNREADY, every characteristic at its HAP default.                       *)

NoOp == [kind |-> "none", node |-> 0, vid |-> <<>>, acc |-> "", char |-> "",
         arg |-> Undef, criteria |-> <<>>]

DefaultChars ==
    [c \in CharNames |->
        CASE c \in {"On", "MotionDetected", "OutletInUse"} -> B(FALSE)
          [] c \in {"BatteryLevel", "ChargingState", "StatusLowBattery",
                    "CurrentTemperature", "Brightness", "StatusTampered",
                    "CurrentRelativeHumidity", "CurrentAmbientLightLevel"} -> N(0)
          [] OTHER -> S(<<"Default">>)]

\* The accessories of the platform configuration
BatteryAndSwitchConfig ==
    [a \in Accessories |->
        IF a = "a1" THEN [zwaveNodeId |-> 1, homekitServices |-> <<"Battery">>]
        ELSE [zwaveNodeId |-> 2, homekitServices |-> <<"Switch">>]]

\* The state after construction for one configuration and one network
Start(cfg, net) ==
    /\ nodes = <<>>
    /\ zready = FALSE
    /\ readyL = <<>>
    /\ valueL = <<>>
    /\ config = cfg
    /\ network = net
    /\ initialized = [a \in Accessories |-> FALSE]
    /\ readyState = [a \in Accessories |-> READY_STATE_UNREADY]
    /\ chars = [a \in Accessories |-> DefaultChars]
    /\ op = NoOp
    /\ cb = <<>>
    /\ pushes = <<>>
    /\ cmds = <<>>
    /\ lookups = 0
    /\ filtered = 0
    /\ derived = <<>>
    /\ emitted = <<>>
    /\ invoked = <<>>
    /\ observed = <<>>
    /\ found = <<>>
    /\ threw = FALSE
    /\ events = 0

Init == Start(BatteryAndSwitchConfig, DeviceValues)

\* The effects of a call chain that touches neither HomeKit hook
Effects(ctx) ==
    /\ readyState' = ctx.ready
    /\ chars' = ctx.chars
    /\ pushes' = ctx.pushes
    /\ lookups' = ctx.lookups
    /\ derived' = ctx.derived
    /\ emitted' = ctx.emitted
    /\ invoked' = ctx.invoked
    /\ observed' = ctx.observed
    /\ found' = ctx.found
    /\ threw' = ctx.threw
    /\ cb' = <<>>
    /\ cmds' = ctx.cmds
    /\ filtered' = 0

Quiet == Ctx(readyState, chars)

\* Every call chain counts against the bound on the history length
Tick == events < MaxEvents /\ events' = events + 1

-----------------------------------------------------------------------------
(* AccessoryManager.initializeAccessory                                    *)

initializeAccessory(a) ==
    /\ Tick
    /\ ~initialized[a]
    /\ initialized' = [initialized EXCEPT ![a] = TRUE]
    /\ valueL' = valueL \o AllListeners(a, config[a].zwaveNodeId,
                                        config[a].homekitServices)
    /\ readyL' = Append(readyL, [acc |-> a, nodeId |-> config[a].zwaveNodeId])
    /\ Effects(configureAccessoryInformationService(Quiet, a, Undef, Undef, Undef))
    /\ op' = [NoOp EXCEPT !.kind = "initializeAccessory", !.acc = a]
    /\ UNCHANGED <<nodes, zready, config, network>>

-----------------------------------------------------------------------------
(* Driver event handlers of lib/ZWave.js                                   *)

_ozwScanCompleteIgnored ==
    /\ Tick
    /\ ~zready
    /\ zready' = zready
    /\ Effects(Quiet)
    /\ op' = [NoOp EXCEPT !.kind = "scanComplete"]
    /\ UNCHANGED <<nodes, readyL, valueL, config, network, initialized>>

_ozwScanComplete ==
    /\ Tick
    /\ ~zready
    /\ zready' = TRUE
    /\ Effects(Quiet)
    /\ op' = [NoOp EXCEPT !.kind = "scanComplete"]
    /\ UNCHANGED <<nodes, readyL, valueL, config, network, initialized>>

EmptyNode(nodeId) ==
    [id |-> N(nodeId), manufacturer |-> Undef, product |-> Undef, values |-> <<>>]

\* Map.prototype.set on _nodes
NodesSetIfAbsent(store, nodeId, node) ==
    [k \in DOMAIN store \cup {nodeId} |->
        IF k \in DOMAIN store THEN store[k] ELSE node]

NodesSet(store, nodeId, node) ==
    [k \in DOMAIN store \cup {nodeId} |-> IF k = nodeId THEN node ELSE store[k]]

\* Map.prototype.delete on _nodes
NodesDelete(store, nodeId) == [k \in DOMAIN store \ {nodeId} |-> store[k]]

\* op.arg notes how many values the record that Map.set replaced was holding
_ozwNodeAdded(nodeId) ==
    /\ Tick
    /\ nodes' = NodesSet(nodes, nodeId, EmptyNode(nodeId))
    /\ Effects(Quiet)
    /\ op' = [NoOp EXCEPT !.kind = "nodeAdded", !.node = nodeId,
                          !.arg = IF nodeId \in DOMAIN nodes
                                  THEN N(Len(nodes[nodeId].values))
                                  ELSE Undef]
    /\ UNCHANGED <<zready, readyL, valueL, config, network, initialized>>

_ozwNodeRemoved(nodeId) ==
    /\ Tick
    /\ nodes' = NodesDelete(nodes, nodeId)
    /\ Effects(Quiet)
    /\ op' = [NoOp EXCEPT !.kind = "nodeRemoved", !.node = nodeId]
    /\ UNCHANGED <<zready, readyL, valueL, config, network, initialized>>

\* Object.assign(node, nodeData): the fields of nodeData are copied onto the
\* record the cache holds
ObjectAssignReplacing(node, nodeData) ==
    [id |-> Undef, manufacturer |-> nodeData.manufacturer,
     product |-> nodeData.product, values |-> <<>>]

ObjectAssign(node, nodeData) ==
    [node EXCEPT !.manufacturer = nodeData.manufacturer,
                 !.product = nodeData.product]

\* Object.assign(undefined, nodeData) is a TypeError
_ozwNodeReady(nodeId, nodeData) ==
    /\ Tick
    /\ op' = [NoOp EXCEPT !.kind = "nodeReady", !.node = nodeId]
    /\ IF nodeId \notin DOMAIN nodes
       THEN /\ Effects(Throw(Quiet))
            /\ UNCHANGED nodes
       ELSE LET node == ObjectAssign(nodes[nodeId], nodeData)
                store == NodesSet(nodes, nodeId, node)
            IN /\ nodes' = store
               /\ Effects(emitNodeReady(readyL, store, node,
                                        Emit(Quiet, <<node>>)))
    /\ UNCHANGED <<zready, readyL, valueL, config, network, initialized>>

_ozwNodeValueAdded(nodeId, value) ==
    /\ Tick
    /\ op' = [NoOp EXCEPT !.kind = "valueAdded", !.node = nodeId,
                          !.vid = value.value_id, !.arg = value.value]
    /\ IF nodeId \notin DOMAIN nodes
       THEN /\ Effects(Throw(Quiet))
            /\ UNCHANGED nodes
       ELSE /\ nodes' = [nodes EXCEPT ![nodeId].values =
                            MapSet(@, value.value_id, value)]
            /\ Effects(Quiet)
    /\ UNCHANGED <<zready, readyL, valueL, config, network, initialized>>

\* The cache the listeners read: existingNodeValue.value is assigned before
\* the emit
ListenerStoreStale(before, after) == before

ListenerStore(before, after) == after

\* existingNodeValue.value = value.value, then emit if the scan is complete
_ozwNodeValueChangedUpsert(nodeId, value) ==
    /\ Tick
    /\ op' = [NoOp EXCEPT !.kind = "valueChanged", !.node = nodeId,
                          !.vid = value.value_id, !.arg = value.value]
    /\ IF nodeId \notin DOMAIN nodes
       THEN /\ Effects(Throw(Quiet))
            /\ UNCHANGED nodes
       ELSE LET store == [nodes EXCEPT ![nodeId].values =
                             MapSet(@, value.value_id, value)]
            IN /\ nodes' = store
               /\ IF zready
                  THEN Effects(emitValueUpdated(
                           valueL, ListenerStore(nodes, store),
                           value.value_id, value.value,
                           Emit(Quiet, <<value.value_id, value.value>>)))
                  ELSE Effects(Quiet)
    /\ UNCHANGED <<zready, readyL, valueL, config, network, initialized>>

_ozwNodeValueChanged(nodeId, value) ==
    /\ Tick
    /\ op' = [NoOp EXCEPT !.kind = "valueChanged", !.node = nodeId,
                          !.vid = value.value_id, !.arg = value.value]
    /\ IF nodeId \notin DOMAIN nodes
       THEN /\ Effects(Throw(Quiet))
            /\ UNCHANGED nodes
       ELSE IF ~MapHas(nodes[nodeId].values, value.value_id)
       THEN /\ Effects(Throw(Quiet))
            /\ UNCHANGED nodes
       ELSE LET existing == MapGet(nodes[nodeId].values, value.value_id)[1]
                store == [nodes EXCEPT ![nodeId].values =
                             MapSet(@, value.value_id,
                                    [existing EXCEPT !.value = value.value])]
            IN /\ nodes' = store
               /\ IF zready
                  THEN Effects(emitValueUpdated(
                           valueL, ListenerStore(nodes, store),
                           existing.value_id, value.value,
                           Emit(Quiet, <<existing.value_id, value.value>>)))
                  ELSE Effects(Quiet)
    /\ UNCHANGED <<zready, readyL, valueL, config, network, initialized>>

\* generateNodeValueId is passed "commandclass", so commandClass is undefined;
\* node.delete is not a function, and node.values of an unknown node faults
_ozwNodeValueRemoved(nodeId, commandclass, valueInstance, valueIndex) ==
    /\ Tick
    /\ op' = [NoOp EXCEPT !.kind = "valueRemoved", !.node = nodeId,
                          !.criteria = [class_id |-> N(commandclass),
                                        instance |-> N(valueInstance),
                                        index |-> N(valueIndex)],
                          !.vid = generateNodeValueId(N(nodeId), Undef,
                                      N(valueInstance), N(valueIndex))]
    /\ Effects(Throw(Quiet))
    /\ UNCHANGED <<nodes, zready, readyL, valueL, config, network, initialized>>

-----------------------------------------------------------------------------
(* The HomeKit hooks built by the binding factory                          *)

Outcome(t, k, v) == [threw |-> t, lookups |-> k, value |-> v]

\* _makeZwaveNodeValueResolver({ commandClass, valueIndex })()
zwaveNodeValueResolverNoIndex(store, nodeId, commandClass, valueIndex) ==
    LET criteria == [class_id |-> N(commandClass)]
    IN IF DestructureThrows(store, nodeId, criteria)
       THEN Outcome(TRUE, 1, Undef)
       ELSE Outcome(FALSE, 1, Destructured(store, nodeId, criteria))

zwaveNodeValueResolver(store, nodeId, commandClass, valueIndex) ==
    LET criteria == [class_id |-> N(commandClass), index |-> N(valueIndex)]
    IN IF DestructureThrows(store, nodeId, criteria)
       THEN Outcome(TRUE, 1, Undef)
       ELSE Outcome(FALSE, 1, Destructured(store, nodeId, criteria))

\* statusLowBatteryCharacteristicZwaveNodeValueResolver()
statusLowBatteryResolverAbove(store, nodeId) ==
    IF DestructureThrows(store, nodeId, BatteryLevelCriteria)
    THEN Outcome(TRUE, 1, Undef)
    ELSE IF DestructureThrows(store, nodeId, PowerModeCriteria)
    THEN Outcome(TRUE, 2, Undef)
    ELSE IF DestructureThrows(store, nodeId, LowBatteryCriteria)
    THEN Outcome(TRUE, 3, Undef)
    ELSE LET batteryLevel == Destructured(store, nodeId, BatteryLevelCriteria)
             currentPowerMode == Destructured(store, nodeId, PowerModeCriteria)
             minBatteryLevel == Destructured(store, nodeId, LowBatteryCriteria)
         IN IF ~CanInclude(currentPowerMode) THEN Outcome(TRUE, 3, Undef)
            ELSE LET isCharging ==
                         JsBoolean(chargingStateFilter(currentPowerMode)).b
                     lowBattery ==
                         ~isCharging /\ JsGreater(JsNumber(batteryLevel),
                                                  JsNumber(minBatteryLevel))
                 IN Outcome(FALSE, 3, IF lowBattery THEN N(1) ELSE N(0))

statusLowBatteryResolver(store, nodeId) ==
    IF DestructureThrows(store, nodeId, BatteryLevelCriteria)
    THEN Outcome(TRUE, 1, Undef)
    ELSE IF DestructureThrows(store, nodeId, PowerModeCriteria)
    THEN Outcome(TRUE, 2, Undef)
    ELSE IF DestructureThrows(store, nodeId, LowBatteryCriteria)
    THEN Outcome(TRUE, 3, Undef)
    ELSE LET batteryLevel == Destructured(store, nodeId, BatteryLevelCriteria)
             currentPowerMode == Destructured(store, nodeId, PowerModeCriteria)
             minBatteryLevel == Destructured(store, nodeId, LowBatteryCriteria)
         IN IF ~CanInclude(currentPowerMode) THEN Outcome(TRUE, 3, Undef)
            ELSE LET isCharging ==
                         JsBoolean(chargingStateFilter(currentPowerMode)).b
                     lowBattery ==
                         ~isCharging /\ JsLess(JsNumber(batteryLevel),
                                               JsNumber(minBatteryLevel))
                 IN Outcome(FALSE, 3, IF lowBattery THEN N(1) ELSE N(0))

Resolve(store, nodeId, g) ==
    IF g.resolver = "lowBattery" THEN statusLowBatteryResolver(store, nodeId)
    ELSE zwaveNodeValueResolver(store, nodeId, g.commandClass, g.valueIndex)

NotReady == [err |-> "not ready", value |-> Undef]
Done(v) == [err |-> "null", value |-> v]

\* What the hook did: callback invocations, lookups, commands, fault
Hook(c, k, f, m, t) ==
    [cb |-> c, lookups |-> k, filtered |-> f, cmds |-> m, threw |-> t]

\* The function _makeCharacteristicGetterForZwaveNodeValue returns
characteristicGetterUngated(rs, store, nodeId, g) ==
    LET r == Resolve(store, nodeId, g)
    IN IF r.threw THEN Hook(<<>>, r.lookups, 0, <<>>, TRUE)
       ELSE IF FilterThrows(g.filter, r.value)
       THEN Hook(<<>>, r.lookups, 0, <<>>, TRUE)
       ELSE Hook(<<Done(ApplyFilter(g.filter, r.value))>>, r.lookups, 0,
                 <<>>, FALSE)

characteristicGetter(rs, store, nodeId, g) ==
    IF rs = READY_STATE_UNREADY THEN Hook(<<NotReady>>, 0, 0, <<>>, FALSE)
    ELSE LET r == Resolve(store, nodeId, g)
         IN IF r.threw THEN Hook(<<>>, r.lookups, 0, <<>>, TRUE)
            ELSE IF FilterThrows(g.filter, r.value)
            THEN Hook(<<>>, r.lookups, 0, <<>>, TRUE)
            ELSE Hook(<<Done(ApplyFilter(g.filter, r.value))>>, r.lookups, 0,
                      <<>>, FALSE)

\* ZWave.updateNodeValueById: the arguments of ozw.setValue
updateNodeValueByIdFirstNode(id, newValue) ==
    LET parts == Split(id)
    IN [nodeId |-> <<"1">>, commandClass |-> parts[2],
        valueInstance |-> parts[3], valueIndex |-> parts[4],
        value |-> newValue]

updateNodeValueById(id, newValue) ==
    LET parts == Split(id)
    IN [nodeId |-> parts[1], commandClass |-> parts[2],
        valueInstance |-> parts[3], valueIndex |-> parts[4],
        value |-> newValue]

\* ZWave.updateNodeValueById: what it leaves in _nodes (it only calls
\* ozw.setValue; the cache is written by the driver's events alone)
updateNodeValueByIdCacheOptimistic(store, nodeId, id, newValue) ==
    IF nodeId \in DOMAIN store /\ MapHas(store[nodeId].values, id)
    THEN [store EXCEPT ![nodeId].values =
             MapSet(@, id, [MapGet(@, id)[1] EXCEPT !.value = newValue])]
    ELSE store

updateNodeValueByIdCache(store, nodeId, id, newValue) == store

\* The function _makeCharacteristicSetterForZwaveNodeValue returns
characteristicSetterSilent(rs, ch, nodeId, b, value) ==
    LET newValue == ApplySetFilter(b.filter, value, ch)
        nodeValueId == generateNodeValueId(N(nodeId), N(b.commandClass),
                                           Undef, N(b.valueIndex))
    IN IF rs = READY_STATE_UNREADY THEN Hook(<<NotReady>>, 0, 1, <<>>, FALSE)
       ELSE Hook(<<>>, 0, 1,
                 <<updateNodeValueById(nodeValueId, newValue)>>, FALSE)

characteristicSetter(rs, ch, nodeId, b, value) ==
    LET newValue == ApplySetFilter(b.filter, value, ch)
        nodeValueId == generateNodeValueId(N(nodeId), N(b.commandClass),
                                           Undef, N(b.valueIndex))
    IN IF rs = READY_STATE_UNREADY THEN Hook(<<NotReady>>, 0, 1, <<>>, FALSE)
       ELSE Hook(<<Done(Undef)>>, 0, 1,
                 <<updateNodeValueById(nodeValueId, newValue)>>, FALSE)

\* HomeKit reads a characteristic.  On done(null, v) the HAP characteristic
\* keeps v as its value.
Get(a, g) ==
    /\ Tick
    /\ initialized[a]
    /\ g \in AllGetBindings(config[a].homekitServices)
    /\ LET h == characteristicGetter(readyState[a], nodes,
                                     config[a].zwaveNodeId, g)
       IN /\ cb' = h.cb
          /\ lookups' = h.lookups
          /\ filtered' = h.filtered
          /\ cmds' = h.cmds
          /\ threw' = h.threw
          /\ chars' = IF h.cb # <<>> /\ h.cb[1].err = "null"
                      THEN [chars EXCEPT ![a][g.char] = h.cb[1].value]
                      ELSE chars
    /\ op' = [NoOp EXCEPT !.kind = "get", !.acc = a, !.char = g.char,
                          !.node = config[a].zwaveNodeId]
    /\ pushes' = <<>>
    /\ derived' = <<>>
    /\ emitted' = <<>>
    /\ invoked' = <<>>
    /\ observed' = <<>>
    /\ found' = <<>>
    /\ UNCHANGED <<nodes, zready, readyL, valueL, config, network, initialized, readyState>>

\* HomeKit writes a characteristic.  On done(null) the HAP characteristic
\* keeps the written value as its value.
Set(a, b, value) ==
    /\ Tick
    /\ initialized[a]
    /\ b \in AllSetBindings(config[a].homekitServices)
    /\ LET h == characteristicSetter(readyState[a], chars[a],
                                     config[a].zwaveNodeId, b, value)
       IN /\ cb' = h.cb
          /\ lookups' = h.lookups
          /\ filtered' = h.filtered
          /\ cmds' = h.cmds
          /\ threw' = h.threw
          /\ chars' = IF h.cb # <<>> /\ h.cb[1].err = "null"
                      THEN [chars EXCEPT ![a][b.char] = value]
                      ELSE chars
          /\ nodes' = IF h.cmds = <<>> THEN nodes
                      ELSE updateNodeValueByIdCache(
                               nodes, config[a].zwaveNodeId,
                               generateNodeValueId(N(config[a].zwaveNodeId),
                                                   N(b.commandClass), Undef,
                                                   N(b.valueIndex)),
                               h.cmds[1].value)
    /\ op' = [NoOp EXCEPT !.kind = "set", !.acc = a, !.char = b.char,
                          !.node = config[a].zwaveNodeId, !.arg = value]
    /\ pushes' = <<>>
    /\ derived' = <<>>
    /\ emitted' = <<>>
    /\ invoked' = <<>>
    /\ observed' = <<>>
    /\ found' = <<>>
    /\ UNCHANGED <<zready, readyL, valueL, config, network, initialized, readyState>>

-----------------------------------------------------------------------------

Next ==
    \/ \E a \in Accessories : initializeAccessory(a)
    \/ _ozwScanComplete
    \/ \E n \in NodeIds : _ozwNodeAdded(n)
    \/ \E n \in NodeIds : _ozwNodeRemoved(n)
    \/ \E n \in NodeIds, d \in NodeDatas : _ozwNodeReady(n, d)
    \/ \E d \in network : \E r \in d.raws : _ozwNodeValueAdded(d.node, OzwValue(d, r))
    \/ \E d \in network : \E r \in d.raws : _ozwNodeValueChanged(d.node, OzwValue(d, r))
    \/ \E d \in network :
          _ozwNodeValueRemoved(d.node, d.class_id, d.instance, d.index)
    \/ \E a \in Accessories : \E g \in AllGetBindings(config[a].homekitServices) :
          Get(a, g)
    \/ \E a \in Accessories : \E b \in AllSetBindings(config[a].homekitServices) :
          \E v \in SetInputsOf(b.char) : Set(a, b, v)

Spec == Init /\ [][Next]_vars

-----------------------------------------------------------------------------
(* A temperature sensor on node 4 next to the switch on node 2             *)

TemperatureAndSwitchConfig ==
    [a \in Accessories |->
        IF a = "a1"
        THEN [zwaveNodeId |-> 4, homekitServices |-> <<"TemperatureSensor">>]
        ELSE [zwaveNodeId |-> 2, homekitServices |-> <<"Switch">>]]

\* Node 4 reports its temperature (in tenths of a degree) and a serial number
TemperatureDevices ==
    { [node |-> 4, class_id |-> COMMAND_CLASS_SENSOR_MULTILEVEL, instance |-> 1,
       index |-> SENSOR_MULTILEVEL_INDEX_TEMPERATURE, label |-> "Temperature",
       raws |-> {N(215), N(220)}],
      [node |-> 4, class_id |-> COMMAND_CLASS_MANUFACTURER_SPECIFIC,
       instance |-> 1, index |-> MANUFACTURER_SPECIFIC_INDEX_SERIAL_NUMBER,
       label |-> "Serial Number", raws |-> {S(<<"SN4">>)}],
      [node |-> 2, class_id |-> COMMAND_CLASS_SWITCH_BINARY, instance |-> 1,
       index |-> SWITCH_BINARY_INDEX_SWITCH, label |-> "Switch",
       raws |-> {B(TRUE), B(FALSE)}] }

InitTemperature == Start(TemperatureAndSwitchConfig, TemperatureDevices)

SpecTemperature == InitTemperature /\ [][Next]_vars

-----------------------------------------------------------------------------
(* Two accessories on the same node 1, both with a Battery service         *)

SharedNodeConfig ==
    [a \in Accessories |->
        IF a = "a1" THEN [zwaveNodeId |-> 1, homekitServices |-> <<"Battery">>]
        ELSE [zwaveNodeId |-> 1, homekitServices |-> <<"Battery", "Switch">>]]

\* Node 1 reports its battery level, power mode, threshold and serial number
SharedNodeDevices ==
    { d \in DeviceValues : d.node = 1 } \cup
    { [node |-> 1, class_id |-> COMMAND_CLASS_MANUFACTURER_SPECIFIC,
       instance |-> 1, index |-> MANUFACTURER_SPECIFIC_INDEX_SERIAL_NUMBER,
       label |-> "Serial Number", raws |-> {S(<<"SN1">>)}] }

InitSharedNode == Start(SharedNodeConfig, SharedNodeDevices)

SpecSharedNode == InitSharedNode /\ [][Next]_vars

-----------------------------------------------------------------------------
(* The cache on its own: driver events and direct calls of the public      *)
(* ZWave.findNodeValue and ZWave.generateNodeValueId, no accessory.        *)

NoAccessoryConfig ==
    [a \in Accessories |-> [zwaveNodeId |-> 0, homekitServices |-> <<>>]]

\* Node 1 is a two-channel device: the same class and index on instances 1
\* and 2, and a second index of that class on instance 1
StoreDevices ==
    { [node |-> 1, class_id |-> COMMAND_CLASS_CONFIGURATION, instance |-> 1,
       index |-> CONFIGURATION_INDEX_CURRENT_POWER_MODE,
       label |-> "Current Power Mode", raws |-> {BatteryPower, PluggedIn}],
      [node |-> 1, class_id |-> COMMAND_CLASS_CONFIGURATION, instance |-> 2,
       index |-> CONFIGURATION_INDEX_CURRENT_POWER_MODE,
       label |-> "Current Power Mode", raws |-> {PluggedIn}],
      [node |-> 1, class_id |-> COMMAND_CLASS_CONFIGURATION, instance |-> 1,
       index |-> CONFIGURATION_INDEX_LOW_BATTERY,
       label |-> "Low Battery", raws |-> {N(20)}],
      [node |-> 2, class_id |-> COMMAND_CLASS_SWITCH_BINARY, instance |-> 1,
       index |-> SWITCH_BINARY_INDEX_SWITCH, label |-> "Switch",
       raws |-> {B(TRUE)}] }

\* The criteria objects passed to findNodeValue
FindCriteria ==
    { [class_id |-> N(COMMAND_CLASS_CONFIGURATION)],
      [class_id |-> N(COMMAND_CLASS_CONFIGURATION),
       index |-> N(CONFIGURATION_INDEX_CURRENT_POWER_MODE)],
      [class_id |-> N(COMMAND_CLASS_CONFIGURATION),
       index |-> N(CONFIGURATION_INDEX_LOW_BATTERY)],
      [class_id |-> N(COMMAND_CLASS_CONFIGURATION), instance |-> N(2),
       index |-> N(CONFIGURATION_INDEX_CURRENT_POWER_MODE)],
      [class_id |-> N(COMMAND_CLASS_CONFIGURATION), instance |-> N(1),
       index |-> N(CONFIGURATION_INDEX_CURRENT_POWER_MODE)],
      [class_id |-> N(COMMAND_CLASS_BATTERY), index |-> N(BATTERY_INDEX_LEVEL)] }

\* The components passed to generateNodeValueId
IdNodes == {1, 11}
IdClasses == {2, 12}
IdInstances == {0, 1, 2}
IdIndexes == {0, 1}

\* zwave.findNodeValue(nodeId, criteria)
CallFindNodeValue(nodeId, criteria) ==
    /\ Tick
    /\ op' = [NoOp EXCEPT !.kind = "findNodeValue", !.node = nodeId,
                          !.criteria = criteria]
    /\ IF findNodeValueThrows(nodes, nodeId)
       THEN Effects(Throw(Looked(Quiet, 1)))
       ELSE Effects([Looked(Quiet, 1) EXCEPT
                        !.found = findNodeValue(nodes, nodeId, criteria)])
    /\ UNCHANGED <<nodes, zready, readyL, valueL, config, network, initialized>>

\* zwave.generateNodeValueId({ nodeId, commandClass, valueInstance, valueIndex })
CallGenerateNodeValueId(nodeId, commandClass, valueInstance, valueIndex) ==
    /\ Tick
    /\ op' = [NoOp EXCEPT
                !.kind = "generateNodeValueId", !.node = nodeId,
                !.criteria = [class_id |-> N(commandClass),
                              instance |-> N(valueInstance),
                              index |-> N(valueIndex)],
                !.vid = generateNodeValueId(N(nodeId), N(commandClass),
                                            N(valueInstance), N(valueIndex))]
    /\ Effects(Quiet)
    /\ UNCHANGED <<nodes, zready, readyL, valueL, config, network, initialized>>

NextStore ==
    \/ _ozwScanComplete
    \/ \E n \in NodeIds : _ozwNodeAdded(n)
    \/ \E n \in NodeIds : _ozwNodeRemoved(n)
    \/ \E n \in NodeIds, d \in NodeDatas : _ozwNodeReady(n, d)
    \/ \E d \in network : \E r \in d.raws : _ozwNodeValueAdded(d.node, OzwValue(d, r))
    \/ \E d \in network : \E r \in d.raws : _ozwNodeValueChanged(d.node, OzwValue(d, r))
    \/ \E d \in network :
          _ozwNodeValueRemoved(d.node, d.class_id, d.instance, d.index)
    \/ \E n \in NodeIds, criteria \in FindCriteria : CallFindNodeValue(n, criteria)
    \/ \E n \in IdNodes, c \in IdClasses, i \in IdInstances, x \in IdIndexes :
          CallGenerateNodeValueId(n, c, i, x)

InitStore == Start(NoAccessoryConfig, StoreDevices)

SpecStore == InitStore /\ [][NextStore]_vars

-----------------------------------------------------------------------------
(* A dimmable light on node 3 and a motion sensor on node 5                *)

DimmableAndMotionConfig ==
    [a \in Accessories |->
        IF a = "a1" THEN [zwaveNodeId |-> 3, homekitServices |-> <<"Dimmable">>]
        ELSE [zwaveNodeId |-> 5, homekitServices |-> <<"MotionSensor">>]]

MotionDetectedText == S(<<"Motion", "Detected">>)
TamperingText == S(<<"Tampering">>)
ClearText == S(<<"Clear">>)

DimmableAndMotionDevices ==
    { [node |-> 3, class_id |-> COMMAND_CLASS_SWITCH_MULTILEVEL, instance |-> 1,
       index |-> SWITCH_BINARY_INDEX_SWITCH, label |-> "Level",
       raws |-> {N(0), N(50)}],
      [node |-> 5, class_id |-> COMMAND_CLASS_ALARM, instance |-> 1,
       index |-> ALARM_INDEX_HOME_SECURITY, label |-> "Home Security",
       raws |-> {MotionDetectedText, TamperingText, ClearText}] }

InitDimmable == Start(DimmableAndMotionConfig, DimmableAndMotionDevices)

SpecDimmable == InitDimmable /\ [][Next]_vars

-----------------------------------------------------------------------------
(* An outlet on node 2 and a humidity and light sensor on node 4           *)

OutletAndSensorConfig ==
    [a \in Accessories |->
        IF a = "a1" THEN [zwaveNodeId |-> 2, homekitServices |-> <<"Outlet">>]
        ELSE [zwaveNodeId |-> 4,
              homekitServices |-> <<"HumiditySensor", "LightSensor">>]]

OutletAndSensorDevices ==
    { [node |-> 2, class_id |-> COMMAND_CLASS_SWITCH_BINARY, instance |-> 1,
       index |-> SWITCH_BINARY_INDEX_SWITCH, label |-> "Switch",
       raws |-> {B(TRUE), B(FALSE)}],
      [node |-> 2, class_id |-> COMMAND_CLASS_METER, instance |-> 1,
       index |-> METER_INDEX_ELECTRIC_INSTANT_POWER, label |-> "Power",
       raws |-> {N(0), N(12)}],
      [node |-> 4, class_id |-> COMMAND_CLASS_SENSOR_MULTILEVEL, instance |-> 1,
       index |-> SENSOR_MULTILEVEL_INDEX_HUMIDITY, label |-> "Relative Humidity",
       raws |-> {N(40)}],
      [node |-> 4, class_id |-> COMMAND_CLASS_SENSOR_MULTILEVEL, instance |-> 1,
       index |-> SENSOR_MULTILEVEL_INDEX_LUMINANCE, label |-> "Luminance",
       raws |-> {N(300)}] }

InitOutlet == Start(OutletAndSensorConfig, OutletAndSensorDevices)

SpecOutlet == InitOutlet /\ [][Next]_vars

-----------------------------------------------------------------------------
(* Vocabulary of the properties                                            *)

Ready(a) == readyState[a] = READY_STATE_READY

\* The raw value the cache holds under a value id, <<>> when it holds none
StoredRaw(store, nodeId, vid) ==
    IF nodeId \notin DOMAIN store THEN <<>>
    ELSE LET e == MapGet(store[nodeId].values, vid)
         IN IF e = <<>> THEN <<>> ELSE <<e[1].value>>

\* The id of the value a binding is about, instance 1
BoundId(nodeId, b) ==
    generateNodeValueId(N(nodeId), N(b.commandClass), N(1), N(b.valueIndex))

GetBindingOf(a, c) ==
    CHOOSE g \in AllGetBindings(config[a].homekitServices) : g.char = c

SetBindingOf(a, c) ==
    CHOOSE b \in AllSetBindings(config[a].homekitServices) : b.char = c

\* The updateValue calls of the last call chain that went to one characteristic
PushesTo(ps, a, c) == SelectSeq(ps, LAMBDA p : p.acc = a /\ p.char = c)

LevelId(nodeId) ==
    generateNodeValueId(N(nodeId), N(COMMAND_CLASS_BATTERY), N(1),
                        N(BATTERY_INDEX_LEVEL))
PowerModeId(nodeId) ==
    generateNodeValueId(N(nodeId), N(COMMAND_CLASS_CONFIGURATION), N(1),
                        N(CONFIGURATION_INDEX_CURRENT_POWER_MODE))
ThresholdId(nodeId) ==
    generateNodeValueId(N(nodeId), N(COMMAND_CLASS_CONFIGURATION), N(1),
                        N(CONFIGURATION_INDEX_LOW_BATTERY))

\* The last call chain was a value-changed event that reached the listeners
Dispatched == op.kind = "valueChanged" /\ zready /\ ~threw

-----------------------------------------------------------------------------
\* C1: a get or set issued while the accessory is UNREADY completes with the
\* 'not ready' error, calls findNodeValue zero times and issues no setValue.
C1_ReadinessGating ==
    (op.kind \in {"get", "set"} /\ ~Ready(op.acc))
        => /\ cb = <<NotReady>>
           /\ lookups = 0
           /\ cmds = <<>>
           /\ ~threw

\* C1 witness: a get on an UNREADY accessory whose bound value is in the cache
C1_Witness ==
    /\ op.kind = "get"
    /\ ~Ready(op.acc)
    /\ StoredRaw(nodes, op.node, BoundId(op.node, GetBindingOf(op.acc, op.char))) # <<>>

\* C2: the generic change-notification listener pushes nothing when the
\* filtered event value equals the value the characteristic shows, and
\* pushes the filtered value exactly once when it differs.
C2_EchoSuppression ==
    [][\A i \in DOMAIN valueL :
         LET l == valueL[i]
             y == ApplyFilter(l.filter, op'.arg)
             n == Len(PushesTo(pushes', l.acc, l.char))
         IN (/\ op'.kind = "valueChanged" /\ zready /\ ~threw'
             /\ l.kind = "generic" /\ l.vid = op'.vid
             /\ StoredRaw(nodes, op'.node, op'.vid) \notin {<<>>, <<op'.arg>>})
            => IF chars[l.acc][l.char] = y THEN n = 0
               ELSE n = 1 /\ PushesTo(pushes', l.acc, l.char)[1].value = y]_vars

\* C3: a set on a READY accessory issues exactly one setValue, addressed to
\* (node id, command class, instance 1, index) of the binding and carrying
\* filter(v); the Switch 'On' setter of node 2 called with true issues the
\* command for 2, 37, 1, 0 carrying true.
C3_SetIssuesOneCommand ==
    (op.kind = "set" /\ Ready(op.acc))
        => LET b == SetBindingOf(op.acc, op.char)
           IN /\ Len(cmds) = 1
              /\ TextToNum(cmds[1].nodeId) = config[op.acc].zwaveNodeId
              /\ TextToNum(cmds[1].commandClass) = b.commandClass
              /\ TextToNum(cmds[1].valueInstance) = 1
              /\ TextToNum(cmds[1].valueIndex) = b.valueIndex
              /\ cmds[1].value = ApplyFilter(b.filter, op.arg)
              /\ (op.node = 2 /\ op.char = "On" /\ op.arg = B(TRUE))
                    => cmds = << [nodeId |-> <<"2">>, commandClass |-> <<"3", "7">>,
                                  valueInstance |-> <<"1">>, valueIndex |-> <<"0">>,
                                  value |-> B(TRUE)] >>

\* C3 witness: the set hook of a READY accessory was called with the number 1
\* and the command carries the boolean true
C3_Witness ==
    /\ op.kind = "set"
    /\ Ready(op.acc)
    /\ op.arg = N(1)
    /\ Len(cmds) = 1
    /\ cmds[1].value = B(TRUE)

\* C4: a set leaves the cache unchanged and pushes nothing; a push into the
\* 'On' characteristic happens only in the handling of a value-changed event
\* for exactly the bound value id.
C4_SetLeavesStoreAndCharacteristics ==
    [][/\ op'.kind = "set" => (nodes' = nodes /\ pushes' = <<>>)
       /\ \A i \in DOMAIN pushes' :
            pushes'[i].char = "On"
                => /\ op'.kind = "valueChanged"
                   /\ op'.vid = BoundId(config[pushes'[i].acc].zwaveNodeId,
                                        SetBindingOf(pushes'[i].acc, "On"))]_vars

\* C4 witness: a set was issued while the cache holds another raw value
C4_Witness ==
    /\ op.kind = "set"
    /\ Len(cmds) = 1
    /\ StoredRaw(nodes, op.node, BoundId(op.node, SetBindingOf(op.acc, op.char)))
          \notin {<<>>, <<cmds[1].value>>}

\* C5: a get on a READY accessory returns filter(r), r being the raw value
\* the cache holds for the bound value id at the moment of the call.
C5_GetReturnsStoredValue ==
    (/\ op.kind = "get" /\ Ready(op.acc)
     /\ GetBindingOf(op.acc, op.char).resolver = "value"
     /\ StoredRaw(nodes, op.node, BoundId(op.node, GetBindingOf(op.acc, op.char))) # <<>>)
        => LET g == GetBindingOf(op.acc, op.char)
               r == StoredRaw(nodes, op.node, BoundId(op.node, g))[1]
           IN cb = <<Done(ApplyFilter(g.filter, r))>>

\* C5 witness: the 'Charging State' get returned 1 while the cache also
\* holds the other value of the configuration command class
C5_Witness ==
    /\ op.kind = "get"
    /\ op.char = "ChargingState"
    /\ cb = <<Done(N(1))>>
    /\ StoredRaw(nodes, op.node, ThresholdId(op.node)) # <<>>

\* C6: the readiness flag turns READY only in the handling of a node-ready
\* event for the accessory's own node id, after initializeAccessory; until
\* then every get and set fails with 'not ready'.
C6_ReadyOnlyByOwnNodeReady ==
    [][\A a \in Accessories :
         /\ (~Ready(a) /\ readyState'[a] = READY_STATE_READY)
               => /\ op'.kind = "nodeReady"
                  /\ op'.node = config[a].zwaveNodeId
                  /\ initialized[a]
         /\ (op'.kind \in {"get", "set"} /\ op'.acc = a /\ ~Ready(a))
               => cb' = <<NotReady>>]_vars

\* C6 witness: a node-ready event of another node was handled and the
\* initialized accessory is still UNREADY
C6_Witness ==
    \E a \in Accessories :
        /\ initialized[a]
        /\ ~Ready(a)
        /\ op.kind = "nodeReady"
        /\ op.node # config[a].zwaveNodeId
        /\ ~threw

\* C7: once READY, the readiness flag is READY in every later state.
C7_ReadyIsTerminal ==
    [][\A a \in Accessories : Ready(a) => readyState'[a] = READY_STATE_READY]_vars

\* C7 witness: the accessory is READY and its node has been removed
C7_Witness ==
    \E a \in Accessories :
        /\ Ready(a)
        /\ op.kind = "nodeRemoved"
        /\ op.node = config[a].zwaveNodeId

\* C8: a get on a READY accessory whose value is not in the cache invokes
\* the completion callback with an error instead of faulting.
C8_ValueNotFoundIsReported ==
    (/\ op.kind = "get" /\ Ready(op.acc)
     /\ GetBindingOf(op.acc, op.char).resolver = "value"
     /\ StoredRaw(nodes, op.node, BoundId(op.node, GetBindingOf(op.acc, op.char))) = <<>>)
        => /\ ~threw
           /\ Len(cb) = 1
           /\ cb[1].err # "null"

\* C9: a dispatched value-changed event on the battery level, the current
\* power mode or the low-battery threshold recomputes 'Status Low Battery'
\* exactly once and pushes it at most once, only if the result differs from
\* the characteristic's value.
C9_LowBatteryRecomputedOnAnyInput ==
    [][\A a \in Accessories :
         LET n == config[a].zwaveNodeId
             ps == PushesTo(pushes', a, "StatusLowBattery")
         IN (/\ initialized[a]
             /\ "Battery" \in { config[a].homekitServices[i] :
                                  i \in DOMAIN config[a].homekitServices }
             /\ op'.kind = "valueChanged" /\ zready /\ ~threw'
             /\ op'.vid \in {LevelId(n), PowerModeId(n), ThresholdId(n)}
             /\ StoredRaw(nodes, n, op'.vid) \notin {<<>>, <<op'.arg>>})
            => /\ Len(derived') = 1
               /\ Len(ps) <= 1
               /\ Len(ps) = 1 <=> chars[a]["StatusLowBattery"] # derived'[1]]_vars

\* C10 as stated: level 30, threshold 20, 'Battery power' derives low battery
\* true, and the change to 'Plugged in' pushes false exactly once.
C10_ScenarioAsStated ==
    /\ (/\ op.kind = "get" /\ op.char = "StatusLowBattery" /\ Ready(op.acc)
        /\ StoredRaw(nodes, op.node, LevelId(op.node)) = <<N(30)>>
        /\ StoredRaw(nodes, op.node, ThresholdId(op.node)) = <<N(20)>>
        /\ StoredRaw(nodes, op.node, PowerModeId(op.node)) = <<BatteryPower>>)
          => cb = <<Done(N(1))>>
    /\ (/\ Dispatched /\ initialized["a1"]
        /\ op.vid = PowerModeId(config["a1"].zwaveNodeId) /\ op.arg = PluggedIn
        /\ StoredRaw(nodes, op.node, LevelId(op.node)) = <<N(30)>>
        /\ StoredRaw(nodes, op.node, ThresholdId(op.node)) = <<N(20)>>)
          => PushesTo(pushes, "a1", "StatusLowBattery")
                = << [acc |-> "a1", char |-> "StatusLowBattery", value |-> N(0)] >>

\* C10 (amended): with level 30, threshold 20 and 'Battery power' the derived
\* low-battery value is false, 30 not being below 20; after the change to
\* 'Plugged in' with the level still 30 it is false as well, and that change
\* pushes nothing into 'Status Low Battery'.
C10_ScenarioAmended ==
    /\ (/\ op.kind = "get" /\ op.char = "StatusLowBattery" /\ Ready(op.acc)
        /\ StoredRaw(nodes, op.node, LevelId(op.node)) = <<N(30)>>
        /\ StoredRaw(nodes, op.node, ThresholdId(op.node)) = <<N(20)>>
        /\ StoredRaw(nodes, op.node, PowerModeId(op.node))
              \in {<<BatteryPower>>, <<PluggedIn>>})
          => cb = <<Done(N(0))>>
    /\ (/\ Dispatched /\ initialized["a1"]
        /\ op.vid = PowerModeId(config["a1"].zwaveNodeId) /\ op.arg = PluggedIn
        /\ StoredRaw(nodes, op.node, LevelId(op.node)) = <<N(30)>>
        /\ StoredRaw(nodes, op.node, ThresholdId(op.node)) = <<N(20)>>)
          => PushesTo(pushes, "a1", "StatusLowBattery") = <<>>

\* C10 witness: the 'Status Low Battery' get at level 30, threshold 20 and
\* 'Battery power'
C10_Witness ==
    /\ op.kind = "get" /\ op.char = "StatusLowBattery" /\ Ready(op.acc)
    /\ StoredRaw(nodes, op.node, LevelId(op.node)) = <<N(30)>>
    /\ StoredRaw(nodes, op.node, ThresholdId(op.node)) = <<N(20)>>
    /\ StoredRaw(nodes, op.node, PowerModeId(op.node)) = <<BatteryPower>>
    /\ cb = <<Done(N(0))>>

-----------------------------------------------------------------------------
TemperatureId(nodeId) ==
    generateNodeValueId(N(nodeId), N(COMMAND_CLASS_SENSOR_MULTILEVEL), N(1),
                        N(SENSOR_MULTILEVEL_INDEX_TEMPERATURE))

\* The accessory's own value (class 49, instance 1, index 1) holds a number
TemperatureGetReturnsStored ==
    \A a \in Accessories :
        LET n == config[a].zwaveNodeId
            t == StoredRaw(nodes, n, TemperatureId(n))
        IN (/\ op.kind = "get" /\ op.acc = a /\ op.char = "CurrentTemperature"
            /\ Ready(a) /\ t # <<>> /\ t[1].t = "num")
           => cb = <<Done(t[1])>> /\ ~threw

\* A value-changed event replaces the stored temperature t by another t'
TemperatureChanges(a) ==
    LET n == config[a].zwaveNodeId
        t == StoredRaw(nodes, n, TemperatureId(n))
    IN /\ "TemperatureSensor" \in
              { config[a].homekitServices[i] : i \in DOMAIN config[a].homekitServices }
       /\ Ready(a)
       /\ op'.kind = "valueChanged" /\ op'.node = n /\ op'.vid = TemperatureId(n)
       /\ t # <<>> /\ t[1] # op'.arg

\* C11 as stated: for a READY accessory on node 4 whose temperature value
\* holds t, the Current Temperature getter returns the number t, and a
\* value-changed event that changes the value to a different t' pushes t'
\* to Current Temperature exactly once.
C11_TemperatureAsStated ==
    [][/\ TemperatureGetReturnsStored'
       /\ \A a \in Accessories :
             TemperatureChanges(a)
                => PushesTo(pushes', a, "CurrentTemperature")
                      = <<[acc |-> a, char |-> "CurrentTemperature",
                           value |-> op'.arg]>>]_vars

\* C11 amended: the getter returns the number t; a value-changed event that
\* changes the value to a different t' pushes t' exactly once when the
\* network scan is complete, and pushes nothing before that.
C11_TemperatureAmended ==
    [][/\ TemperatureGetReturnsStored'
       /\ \A a \in Accessories :
             TemperatureChanges(a)
                => PushesTo(pushes', a, "CurrentTemperature")
                      = IF zready
                        THEN <<[acc |-> a, char |-> "CurrentTemperature",
                                value |-> op'.arg]>>
                        ELSE <<>>]_vars

\* C11 witness: the READY temperature accessory was shown one reading and
\* has just been pushed the other one
C11_Witness ==
    \E a \in Accessories :
        /\ Ready(a) /\ zready
        /\ op.kind = "valueChanged"
        /\ op.vid = TemperatureId(config[a].zwaveNodeId)
        /\ op.arg = N(220)
        /\ pushes = <<[acc |-> a, char |-> "CurrentTemperature", value |-> N(220)]>>

-----------------------------------------------------------------------------
\* The last call chain was a direct findNodeValue call on a known node
FindReturned == op.kind = "findNodeValue" /\ op.node \in DOMAIN nodes

\* The instance a lookup is about: the given one, 1 when none is given
AskedInstance ==
    IF "instance" \in DOMAIN op.criteria THEN op.criteria.instance ELSE N(1)

\* Positions of the stored values of the looked-up node that agree with the
\* criteria of the last lookup on every field it names and on the instance
MatchingPositions ==
    LET vals == nodes[op.node].values
    IN { i \in DOMAIN vals :
           /\ vals[i].instance = AskedInstance
           /\ \A k \in DOMAIN op.criteria : vals[i][k] = op.criteria[k] }

\* C12 as stated: findNodeValue reports an ambiguity error when more than
\* one stored value matches the criteria, instead of returning the first
\* match.
C12_AmbiguityReported ==
    (FindReturned /\ Cardinality(MatchingPositions) > 1)
        => found = <<>> /\ threw

\* C12 amended: when more than one stored value matches the criteria,
\* findNodeValue returns the match that was stored first and reports nothing.
C12_FirstMatchReturned ==
    (FindReturned /\ Cardinality(MatchingPositions) > 1)
        => /\ ~threw
           /\ found = <<nodes[op.node].values[
                          CHOOSE i \in MatchingPositions :
                              \A j \in MatchingPositions : i <= j]>>

\* C12 witness: a lookup by class alone on a node that stores two indexes
\* of that class on instance 1
C12_Witness ==
    /\ FindReturned
    /\ DOMAIN op.criteria = {"class_id"}
    /\ Cardinality(MatchingPositions) = 2
    /\ found # <<>>

\* C13: a lookup that names no instance is about instance 1 and never
\* returns a value of another instance with the same class and index; a
\* lookup that names an instance is about that instance.  The lookup
\* returns a stored value of that instance whenever one agrees with the
\* criteria.
C13_DefaultInstance ==
    FindReturned
        => /\ ~threw
           /\ \A i \in DOMAIN found :
                 /\ found[i].instance = AskedInstance
                 /\ \A k \in DOMAIN op.criteria : found[i][k] = op.criteria[k]
           /\ (found = <<>>) = (MatchingPositions = {})

\* C13 witness: the node stored the instance 2 value first, and a lookup of
\* the same class and index without an instance returned the instance 1 one
C13_Witness ==
    /\ FindReturned
    /\ DOMAIN op.criteria = {"class_id", "index"}
    /\ Len(nodes[op.node].values) >= 2
    /\ nodes[op.node].values[1].instance = N(2)
    /\ nodes[op.node].values[1].index = op.criteria.index
    /\ found # <<>>
    /\ found[1].instance = N(1)

-----------------------------------------------------------------------------
\* The ids generateNodeValueId gives to every tuple of the bounded domain
\* whose components differ from those of the last call
OtherIds(instances) ==
    { generateNodeValueId(N(n), N(c), N(i), N(x)) :
        <<n, c, i, x>> \in
            { t \in IdNodes \X IdClasses \X instances \X IdIndexes :
                t # <<op.node, op.criteria.class_id.n,
                      op.criteria.instance.n, op.criteria.index.n>> } }

\* Two successive calls with the same components return the same id
StableId ==
    (/\ op.kind = "generateNodeValueId" /\ op'.kind = "generateNodeValueId"
     /\ op'.node = op.node /\ op'.criteria = op.criteria)
        => op'.vid = op.vid

\* C14 as stated: generateNodeValueId is stable, and injective over tuples
\* of non-negative integers including instance 0 and index 0.
C14_InjectiveFromZero ==
    [][/\ StableId
       /\ (op.kind = "generateNodeValueId") => op.vid \notin OtherIds(IdInstances)]_vars

\* C14 amended: generateNodeValueId is stable, and injective over tuples of
\* non-negative integers whose instance is at least 1 (index 0 included);
\* instance 0 is given the id of instance 1.
C14_InjectiveFromOne ==
    [][/\ StableId
       /\ (op.kind = "generateNodeValueId" /\ op.criteria.instance # N(0))
             => op.vid \notin OtherIds(IdInstances \ {0})
       /\ (op.kind = "generateNodeValueId" /\ op.criteria.instance = N(0))
             => op.vid = generateNodeValueId(N(op.node), op.criteria.class_id,
                                             N(1), op.criteria.index)]_vars

\* C14 witness: the id of node 11, class 2, instance 2, index 0 was generated
C14_Witness ==
    /\ op.kind = "generateNodeValueId"
    /\ op.node = 11
    /\ op.criteria = [class_id |-> N(2), instance |-> N(2), index |-> N(0)]
    /\ op.vid = <<"1", "1", "-", "2", "-", "2", "-", "0">>

-----------------------------------------------------------------------------
\* The id of the value a lookup with class, instance and index is about
ExactId(nodeId, criteria) ==
    generateNodeValueId(N(nodeId), criteria.class_id, criteria.instance,
                        criteria.index)

\* C15: the record findNodeValue returns for an exact (class, instance,
\* index) carries the raw value of the most recent value-changed event for
\* that value, or of its value-added event when none followed: each such
\* event stores its raw value under the value's id, no other call chain
\* touches the stored raw values of a node that stays in the cache, and
\* the lookup returns the record stored under that id.
C15_LatestValueFound ==
    [][/\ (op'.kind \in {"valueAdded", "valueChanged"} /\ ~threw')
             => /\ StoredRaw(nodes', op'.node, op'.vid) = <<op'.arg>>
                /\ \A n \in DOMAIN nodes : \A i \in DOMAIN nodes[n].values :
                      LET v == nodes[n].values[i]
                      IN v.value_id # op'.vid
                            => StoredRaw(nodes', n, v.value_id) = <<v.value>>
       /\ (op'.kind \notin {"valueAdded", "valueChanged"} \/ threw')
             => \A n \in DOMAIN nodes \cap DOMAIN nodes' :
                   \/ nodes'[n].values = nodes[n].values
                   \/ op'.kind = "nodeAdded" /\ op'.node = n
       /\ (/\ op'.kind = "findNodeValue" /\ op'.node \in DOMAIN nodes
           /\ DOMAIN op'.criteria = {"class_id", "instance", "index"}
           /\ StoredRaw(nodes, op'.node, ExactId(op'.node, op'.criteria)) # <<>>)
             => /\ Len(found') = 1
                /\ found'[1].value_id = ExactId(op'.node, op'.criteria)
                /\ <<found'[1].value>> =
                      StoredRaw(nodes, op'.node, ExactId(op'.node, op'.criteria))]_vars

\* C15 witness: an exact lookup of the power mode of instance 1 returned
\* 'Plugged in' on a node that stores three values
C15_Witness ==
    /\ op.kind = "findNodeValue"
    /\ op.criteria = [class_id |-> N(COMMAND_CLASS_CONFIGURATION),
                       instance |-> N(1),
                       index |-> N(CONFIGURATION_INDEX_CURRENT_POWER_MODE)]
    /\ Len(found) = 1
    /\ found[1].value = PluggedIn
    /\ op.node \in DOMAIN nodes
    /\ Len(nodes[op.node].values) = 3

-----------------------------------------------------------------------------
\* A value-changed event for a stored value that is dispatched to listeners
ValueUpdateDispatched ==
    /\ op'.kind = "valueChanged"
    /\ zready
    /\ StoredRaw(nodes, op'.node, op'.vid) # <<>>

\* C16 as stated: on every value update the previously stored raw value is
\* supplied to the value-changed listeners together with the new value.
C16_PreviousValueSupplied ==
    [][ValueUpdateDispatched
          => /\ Len(emitted') >= 3
             /\ emitted'[2] = op'.arg
             /\ <<emitted'[3]>> = StoredRaw(nodes, op'.node, op'.vid)]_vars

\* C16 amended: on every value update that is dispatched, the listeners are
\* supplied the value id and the new raw value and nothing else; the
\* previously stored raw value is not passed to them.
C16_OnlyNewValueSupplied ==
    [][ValueUpdateDispatched => emitted' = <<op'.vid, op'.arg>>]_vars

\* C16 witness: a dispatched change of the battery level to 30 reached a
\* listener, which pushed 30
C16_Witness ==
    /\ op.kind = "valueChanged"
    /\ op.arg = N(30)
    /\ emitted = <<op.vid, N(30)>>
    /\ invoked # <<>>
    /\ pushes # <<>>
    /\ pushes[1].value = N(30)

-----------------------------------------------------------------------------
\* C17: the dispatch of a value change for id v invokes every listener
\* registered for exactly v, each once, in registration order, within the
\* same call chain, and no listener registered for another id.
C17_ValueListenersAllInvoked ==
    [][ValueUpdateDispatched
          => invoked' = SelectSeq(valueL, LAMBDA l : l.vid = op'.vid)]_vars

\* C18: a node-ready event for node n invokes every ready-listener
\* registered for n, each once, in registration order, with the merged node
\* record, and no listener registered for another node.
C18_ReadyListenersAllInvoked ==
    [][(op'.kind = "nodeReady" /\ op'.node \in DOMAIN nodes)
          => /\ invoked' = SelectSeq(readyL, LAMBDA l : l.nodeId = op'.node)
             /\ emitted' = <<nodes'[op'.node]>>]_vars

-----------------------------------------------------------------------------
\* C19 as stated: a node-added event for an id already in the cache is
\* reported as an error and leaves the existing node record and its values
\* unchanged; for an absent id it creates the record with no values.
C19_DuplicateAddRejected ==
    [][op'.kind = "nodeAdded"
          => IF op'.node \in DOMAIN nodes
             THEN threw' /\ nodes' = nodes
             ELSE /\ ~threw'
                  /\ DOMAIN nodes' = DOMAIN nodes \cup {op'.node}
                  /\ nodes'[op'.node].values = <<>>]_vars

\* C19 amended: a node-added event reports nothing and leaves the cache
\* with a record for the id that holds no values and no node data, whether
\* or not the id was present (a present record and its values are
\* discarded); the records of the other nodes are unchanged.
C19_AddReplacesRecord ==
    [][op'.kind = "nodeAdded"
          => /\ ~threw'
             /\ DOMAIN nodes' = DOMAIN nodes \cup {op'.node}
             /\ nodes'[op'.node] =
                   [id |-> N(op'.node), manufacturer |-> Undef,
                    product |-> Undef, values |-> <<>>]
             /\ \A n \in DOMAIN nodes \ {op'.node} : nodes'[n] = nodes[n]]_vars

\* C19 witness: node 1 was added again while its record held two values,
\* and the record now holds none
C19_Witness ==
    /\ op.kind = "nodeAdded"
    /\ op.node = 1
    /\ op.arg = N(2)
    /\ nodes[1].values = <<>>

\* C20: after a node-removed event for n the cache holds neither the node
\* nor any of its values, and a findNodeValue for n made next yields "not
\* found": it neither returns a value nor faults.
C20_RemovedNodeNotFound ==
    [][/\ (op'.kind = "nodeRemoved") => op'.node \notin DOMAIN nodes'
       /\ (/\ op.kind = "nodeRemoved" /\ op'.kind = "findNodeValue"
           /\ op'.node = op.node)
             => ~threw' /\ found' = <<>>]_vars

-----------------------------------------------------------------------------
\* C21: a value-removed event for a value that is in the cache removes it
\* from the node's values: an exact lookup finds nothing afterwards, and
\* the node's other values are unchanged.
C21_ValueRemovedFromStore ==
    [][(/\ op'.kind = "valueRemoved"
        /\ StoredRaw(nodes, op'.node, ExactId(op'.node, op'.criteria)) # <<>>)
          => /\ ~threw'
             /\ op'.node \in DOMAIN nodes'
             /\ findNodeValue(nodes', op'.node, op'.criteria) = <<>>
             /\ nodes'[op'.node].values =
                   SelectSeq(nodes[op'.node].values,
                             LAMBDA v : v.value_id # ExactId(op'.node, op'.criteria))]_vars

\* C22: within one node no two stored values share a value id; adding a
\* value whose id is already present does not yield two records for it.
C22_UniqueValueIds ==
    \A n \in DOMAIN nodes :
        \A i, j \in DOMAIN nodes[n].values :
            nodes[n].values[i].value_id = nodes[n].values[j].value_id => i = j

\* C22 witness: a value was added under the id of the first of two stored
\* values, so it was added while that id was present
C22_Witness ==
    /\ op.kind = "valueAdded"
    /\ ~threw
    /\ Len(nodes[op.node].values) >= 2
    /\ nodes[op.node].values[1].value_id = op.vid

\* The raw value stored as the serial number of a node, <<>> when none is
SerialOf(nodeId) ==
    StoredRaw(nodes, nodeId,
              generateNodeValueId(N(nodeId), N(COMMAND_CLASS_MANUFACTURER_SPECIFIC),
                                  N(1), N(MANUFACTURER_SPECIFIC_INDEX_SERIAL_NUMBER)))

\* C23: the serial-number lookup at node-ready does not fault; it yields
\* the stored serial number when the manufacturer-specific value exists,
\* and the accessory information falls back to 'Unknown' when no record is
\* found.
C23_SerialLookupTolerant ==
    (op.kind = "nodeReady" /\ op.node \in DOMAIN nodes)
        => /\ ~threw
           /\ \A i \in DOMAIN readyL :
                 readyL[i].nodeId = op.node
                    => PushesTo(pushes, readyL[i].acc, "SerialNumber") =
                          <<[acc |-> readyL[i].acc, char |-> "SerialNumber",
                             value |-> IF SerialOf(op.node) = <<>> THEN Unknown
                                       ELSE SerialOf(op.node)[1]]>>

-----------------------------------------------------------------------------
\* C24: a set on a READY accessory reports completion to its caller in the
\* call chain that issues the outbound command, without consulting the
\* cache and whether or not the cache holds the value at all, so it does
\* not depend on any value-changed event.
C24_SetIsFireAndForget ==
    (op.kind = "set" /\ Ready(op.acc))
        => /\ cb = <<Done(Undef)>>
           /\ cmds # <<>>
           /\ lookups = 0
           /\ emitted = <<>>
           /\ ~threw

\* C24 witness: a set completed on a READY accessory whose bound value was
\* never reported by the driver
C24_Witness ==
    /\ op.kind = "set"
    /\ Ready(op.acc)
    /\ cb = <<Done(Undef)>>
    /\ Len(cmds) = 1
    /\ StoredRaw(nodes, op.node, BoundId(op.node, SetBindingOf(op.acc, op.char))) = <<>>

\* C25: handling a driver event, every change listener included, issues no
\* outbound setValue command; commands are issued by set calls only, one
\* per set on a READY accessory and none on an UNREADY one.
C25_NoFeedbackLoop ==
    /\ op.kind # "set" => cmds = <<>>
    /\ op.kind = "set" => Len(cmds) = IF Ready(op.acc) THEN 1 ELSE 0

\* C25 witness: a dispatched battery-level change pushed into two
\* characteristics and issued no command
C25_Witness ==
    /\ op.kind = "valueChanged"
    /\ invoked # <<>>
    /\ Len(pushes) = 2
    /\ cmds = <<>>

\* C26: only the driver's event handlers change the cache.  A get, a set,
\* an initialization and a scan-complete leave it as it is; the handling
\* of a value-changed event, listeners included, changes nothing but the
\* raw value of the event's own id, and that of a node-ready event leaves
\* every node's values as they are.
C26_OnlyDriverMutatesStore ==
    [][/\ op'.kind \in {"get", "set", "initializeAccessory", "scanComplete"}
             => nodes' = nodes
       /\ op'.kind \in {"valueChanged", "nodeReady"}
             => /\ DOMAIN nodes' = DOMAIN nodes
                /\ \A n \in DOMAIN nodes :
                      /\ Len(nodes'[n].values) = Len(nodes[n].values)
                      /\ \A i \in DOMAIN nodes[n].values :
                            \/ nodes'[n].values[i] = nodes[n].values[i]
                            \/ /\ op'.kind = "valueChanged"
                               /\ n = op'.node
                               /\ nodes[n].values[i].value_id = op'.vid
                               /\ nodes'[n].values[i] =
                                     [nodes[n].values[i] EXCEPT !.value = op'.arg]]_vars

\* C26 witness: a set on a READY accessory issued a command whose value
\* differs from the raw value the cache holds, and the cache still holds it
C26_Witness ==
    /\ op.kind = "set"
    /\ Ready(op.acc)
    /\ cmds # <<>>
    /\ cmds[1].value = B(TRUE)
    /\ StoredRaw(nodes, op.node, BoundId(op.node, SetBindingOf(op.acc, op.char)))
          = <<B(FALSE)>>

\* C27: for accessories bound to different nodes, a node-ready or
\* value-changed event for one node neither changes the readiness of an
\* accessory bound to another node nor pushes into its characteristics,
\* and every command a set issues is addressed to the node of the accessory
\* that was set.
C27_AccessoriesIndependent ==
    [][/\ op'.kind \in {"nodeReady", "valueChanged"}
             => \A a \in Accessories :
                   config[a].zwaveNodeId # op'.node
                      => /\ readyState'[a] = readyState[a]
                         /\ chars'[a] = chars[a]
                         /\ \A i \in DOMAIN pushes' : pushes'[i].acc # a
                         /\ \A i \in DOMAIN invoked' : invoked'[i].acc # a
       /\ op'.kind = "set"
             => \A i \in DOMAIN cmds' :
                   TextToNum(cmds'[i].nodeId) = config[op'.acc].zwaveNodeId]_vars

\* C27 witness: a change on one accessory's node was pushed to it while an
\* accessory on another node had its listeners registered
C27_Witness ==
    \E a, b \in Accessories :
        /\ config[a].zwaveNodeId # config[b].zwaveNodeId
        /\ initialized[b]
        /\ op.kind = "valueChanged"
        /\ op.node = config[a].zwaveNodeId
        /\ pushes # <<>>
        /\ \A i \in DOMAIN pushes : pushes[i].acc = a

-----------------------------------------------------------------------------
\* The id generateNodeValueId gives to the components of a stored record
EncodedId(v) == generateNodeValueId(v.node_id, v.class_id, v.instance, v.index)

\* C28: every value is kept under the id generateNodeValueId gives to its
\* components, its changes are published under that id, so that a listener
\* subscribed with it is invoked for each of them, and a value-removed
\* event addresses that same id.
C28_KeyConsistency ==
    /\ \A n \in DOMAIN nodes : \A i \in DOMAIN nodes[n].values :
          nodes[n].values[i].value_id = EncodedId(nodes[n].values[i])
    /\ (op.kind = "valueChanged" /\ emitted # <<>>)
          => /\ emitted[1] = op.vid
             /\ ~threw => \A i \in DOMAIN valueL :
                             valueL[i].vid = op.vid
                                => \E j \in DOMAIN invoked : invoked[j] = valueL[i]
    /\ op.kind = "valueRemoved" => op.vid = ExactId(op.node, op.criteria)

\* C29: the cache is updated before the listeners run: each listener that
\* is invoked for a value id finds, under that id, the raw value it is
\* handed, and after the call chain the cache holds the published value.
C29_StoreUpdatedBeforeListeners ==
    /\ \A i \in DOMAIN observed :
          /\ observed[i].stored # <<>>
          /\ observed[i].stored[1].value = observed[i].payload
    /\ (op.kind = "valueChanged" /\ emitted # <<>>)
          => StoredRaw(nodes, op.node, emitted[1]) = <<emitted[2]>>

\* C29 witness: the battery-level listener was handed 30, found 30 in the
\* cache and went on to look up the power mode and the threshold
C29_Witness ==
    /\ op.kind = "valueChanged"
    /\ Len(observed) = 1
    /\ observed[1].payload = N(30)
    /\ observed[1].stored # <<>>
    /\ lookups = 2
    /\ derived # <<>>

\* C30: a set on an UNREADY accessory fails before the set-side filter is
\* applied: the filter is not invoked.
C30_ReadinessBeforeFilter ==
    (op.kind = "set" /\ ~Ready(op.acc)) => filtered = 0


-----------------------------------------------------------------------------
\* The value ids the get hook of a binding reads on node nodeId
ReadIds(nodeId, g) ==
    IF g.resolver = "lowBattery"
    THEN {LevelId(nodeId), PowerModeId(nodeId), ThresholdId(nodeId)}
    ELSE {BoundId(nodeId, g)}

\* C31: for every service initializeAccessory has configured, every
\* characteristic with a get binding has a value-changed subscription on every
\* value id its getter reads, so a dispatched change of such a value invokes a
\* listener of that accessory.
C31_PropagationWired ==
    \A a \in Accessories :
        initialized[a] =>
            \A g \in AllGetBindings(config[a].homekitServices) :
                \A id \in ReadIds(config[a].zwaveNodeId, g) :
                    /\ \E i \in DOMAIN valueL :
                          valueL[i].acc = a /\ valueL[i].vid = id
                    /\ (Dispatched /\ op.vid = id)
                          => \E i \in DOMAIN invoked : invoked[i].acc = a


-----------------------------------------------------------------------------
\* C32: node ready merges and does not replace: after a node-ready event for a
\* stored node n its record carries the supplied attributes, still has id n
\* and still holds exactly the values it held before, raw values unchanged;
\* every other record is untouched.
C32_ReadyMerges ==
    [][(op'.kind = "nodeReady" /\ op'.node \in DOMAIN nodes) =>
        LET n == op'.node
        IN /\ DOMAIN nodes' = DOMAIN nodes
           /\ nodes'[n].id = N(n)
           /\ nodes'[n].values = nodes[n].values
           /\ \E d \in NodeDatas : /\ nodes'[n].manufacturer = d.manufacturer
                                   /\ nodes'[n].product = d.product
           /\ \A k \in DOMAIN nodes \ {n} : nodes'[k] = nodes[k]]_vars

\* a node holding two values has been reported ready and kept both
C32_Witness ==
    /\ op.kind = "nodeReady"
    /\ op.node \in DOMAIN nodes
    /\ nodes[op.node].manufacturer \in { d.manufacturer : d \in NodeDatas }
    /\ Len(nodes[op.node].values) >= 2


-----------------------------------------------------------------------------
\* C33: a value-changed event for value v changes only the raw value field of
\* v's record: its class, instance, index and label, the other values of the
\* node, the node attributes and all records of other nodes are unchanged, and
\* no value is added or removed.
C33_OnlyRawValueChanges ==
    [][op'.kind = "valueChanged" =>
        /\ DOMAIN nodes' = DOMAIN nodes
        /\ \A k \in DOMAIN nodes :
              /\ nodes'[k].id = nodes[k].id
              /\ nodes'[k].manufacturer = nodes[k].manufacturer
              /\ nodes'[k].product = nodes[k].product
              /\ Len(nodes'[k].values) = Len(nodes[k].values)
              /\ \A i \in 1..Len(nodes[k].values) :
                    LET old == nodes[k].values[i]
                    IN IF k = op'.node /\ old.value_id = op'.vid
                       THEN nodes'[k].values[i] = [old EXCEPT !.value = op'.arg]
                       ELSE nodes'[k].values[i] = old]_vars

\* a stored value that is not the first of its node has taken the reported
\* raw value while another node holds values too
C33_Witness ==
    /\ op.kind = "valueChanged"
    /\ ~threw
    /\ op.node \in DOMAIN nodes
    /\ Len(nodes[op.node].values) >= 2
    /\ nodes[op.node].values[1].value_id # op.vid
    /\ StoredRaw(nodes, op.node, op.vid) = <<op.arg>>
    /\ \E k \in DOMAIN nodes \ {op.node} : nodes[k].values # <<>>


-----------------------------------------------------------------------------
\* The cache holds a record under the id of the event about to be handled
EventValueStored ==
    op'.node \in DOMAIN nodes /\ MapHas(nodes[op'.node].values, op'.vid)

\* C34: a value-changed event for a stored value that arrives before scan
\* complete is stored but not dispatched (no emit, no listener invoked, no
\* characteristic push); handling scan complete sets the network-ready flag,
\* the flag never goes back to false, and with the flag set every
\* value-changed event for a stored value is emitted with its id and new raw
\* value and reaches a listener subscribed to that id.
C34_DispatchOnlyAfterScan ==
    [][/\ zready => zready'
       /\ op'.kind = "scanComplete" => zready'
       /\ (op'.kind = "valueChanged" /\ EventValueStored) =>
             /\ StoredRaw(nodes', op'.node, op'.vid) = <<op'.arg>>
             /\ IF zready
                THEN /\ emitted' = <<op'.vid, op'.arg>>
                     /\ (\E i \in DOMAIN valueL : valueL[i].vid = op'.vid)
                           => invoked' # <<>>
                ELSE /\ emitted' = <<>>
                     /\ invoked' = <<>>
                     /\ pushes' = <<>>]_vars

\* before scan complete a change of a value that has a subscribed listener was
\* stored and no listener ran
C34_Witness ==
    /\ op.kind = "valueChanged"
    /\ ~zready
    /\ ~threw
    /\ StoredRaw(nodes, op.node, op.vid) = <<op.arg>>
    /\ \E i \in DOMAIN valueL : valueL[i].vid = op.vid
    /\ invoked = <<>>
    /\ pushes = <<>>


-----------------------------------------------------------------------------
\* The characteristics bound 1:1 to one stored value
OneToOneChars ==
    {"On", "OutletInUse", "CurrentRelativeHumidity", "CurrentAmbientLightLevel",
     "CurrentTemperature", "BatteryLevel", "ChargingState"}

\* C35: push and get agree for 1:1 bindings: right after a value-changed event
\* has been handled, the value last pushed into such a characteristic is the
\* value the characteristic holds and is what its getter returns on a READY
\* accessory.
C35_PushAgreesWithGet ==
    op.kind = "valueChanged" =>
        \A a \in Accessories : \A c \in OneToOneChars :
            LET ps == PushesTo(pushes, a, c)
            IN ps # <<>> =>
                  /\ chars[a][c] = ps[Len(ps)].value
                  /\ characteristicGetter(READY_STATE_READY, nodes,
                                          config[a].zwaveNodeId,
                                          GetBindingOf(a, c)).cb
                        = <<Done(ps[Len(ps)].value)>>

\* a reported power of 12 was pushed into 'Outlet In Use' as true
C35_Witness ==
    /\ Dispatched
    /\ op.arg = N(12)
    /\ PushesTo(pushes, "a1", "OutletInUse")
          = <<[acc |-> "a1", char |-> "OutletInUse", value |-> B(TRUE)]>>
    /\ Ready("a1")


-----------------------------------------------------------------------------
\* C36: every get and every set on a bound characteristic invokes its
\* completion callback exactly once, whatever the readiness of the accessory
\* and whatever the cache holds.
C36_CallbackExactlyOnce ==
    op.kind \in {"get", "set"} => Len(cb) = 1


-----------------------------------------------------------------------------
\* The id of the home security value of a node
HomeSecurityId(nodeId) ==
    generateNodeValueId(N(nodeId), N(COMMAND_CLASS_ALARM), N(1),
                        N(ALARM_INDEX_HOME_SECURITY))

\* The motion sensor listeners the last call chain invoked
MotionInvocations == SelectSeq(invoked, LAMBDA l : l.kind = "motion")

\* C37: one value-changed event on the home security value drives both motion
\* sensor characteristics from the same raw value: 'Motion Detected' is pushed
\* at most once, with the recomputed "contains Motion Detected", and only if
\* that differs from the value the characteristic held; 'Status Tampered' is
\* pushed at most once, with the recomputed "contains Tampering" (1 or 0), and
\* only if that differs from the value it held; nothing else is pushed.
C37_MotionSensorGuardedPushes ==
    [][(op'.kind = "valueChanged" /\ MotionInvocations' # <<>>) =>
        LET a == MotionInvocations'[1].acc
            motion == B(Includes(op'.arg, <<"Motion", "Detected">>))
            tamper == IF Includes(op'.arg, <<"Tampering">>) THEN N(1) ELSE N(0)
            pm == PushesTo(pushes', a, "MotionDetected")
            pt == PushesTo(pushes', a, "StatusTampered")
        IN /\ Len(MotionInvocations') = 1
           /\ op'.vid = HomeSecurityId(config[a].zwaveNodeId)
           /\ Len(pm) <= 1
           /\ Len(pt) <= 1
           /\ Len(pushes') = Len(pm) + Len(pt)
           /\ pm # <<>> <=> chars[a]["MotionDetected"] # motion
           /\ pt # <<>> <=> chars[a]["StatusTampered"] # tamper
           /\ pm # <<>> => pm[1].value = motion
           /\ pt # <<>> => pt[1].value = tamper
           /\ chars'[a]["MotionDetected"] = motion
           /\ chars'[a]["StatusTampered"] = tamper]_vars

\* a tampering report reached a sensor that was showing motion: both
\* characteristics were pushed, once each
C37_Witness ==
    /\ Dispatched
    /\ op.arg = TamperingText
    /\ pushes = <<[acc |-> "a2", char |-> "MotionDetected", value |-> B(FALSE)],
                  [acc |-> "a2", char |-> "StatusTampered", value |-> N(1)]>>


-----------------------------------------------------------------------------
\* The battery-level listeners the last call chain invoked
BatteryInvocations == SelectSeq(invoked, LAMBDA l : l.kind = "battery")

\* C38: the two computations of 'Status Low Battery' agree: after a
\* battery-level event whose listener ran to its end, the value the listener
\* computed from the event payload and the stored power mode and threshold is
\* the value the getter's resolver computes from the cache, and it is the value
\* the characteristic holds.
C38_LowBatteryComputationsAgree ==
    (op.kind = "valueChanged" /\ ~threw) =>
        \A i \in DOMAIN BatteryInvocations :
            LET l == BatteryInvocations[i]
                r == statusLowBatteryResolver(nodes, l.nodeId)
            IN /\ ~r.threw
               /\ derived[i] = r.value
               /\ chars[l.acc]["StatusLowBattery"] = r.value

\* a level below the threshold on battery power raised 'Status Low Battery'
C38_Witness ==
    /\ Dispatched
    /\ op.vid = LevelId(1)
    /\ BatteryInvocations # <<>>
    /\ derived = <<N(1)>>
    /\ PushesTo(pushes, "a1", "StatusLowBattery") # <<>>
    /\ chars["a1"]["StatusLowBattery"] = N(1)


-----------------------------------------------------------------------------
\* C39: a value-changed event for a value id the cache does not hold (never
\* added, or its node unknown) leaves the cache unchanged, creates no value
\* record, and invokes no value-changed listener: nothing is emitted, nothing
\* is pushed and no characteristic changes.
C39_UnknownValueChangeIgnored ==
    [][(op'.kind = "valueChanged" /\ ~EventValueStored) =>
        /\ nodes' = nodes
        /\ emitted' = <<>>
        /\ invoked' = <<>>
        /\ pushes' = <<>>
        /\ chars' = chars]_vars

\* after scan complete a change arrived for a value that was never added to
\* its stored node, although a listener is subscribed to its id
C39_Witness ==
    /\ op.kind = "valueChanged"
    /\ zready
    /\ op.node \in DOMAIN nodes
    /\ StoredRaw(nodes, op.node, op.vid) = <<>>
    /\ \E i \in DOMAIN valueL : valueL[i].vid = op.vid
    /\ invoked = <<>>
    /\ threw


-----------------------------------------------------------------------------
\* The last call chain was a completed set of 'On' on a dimmable light
DimmableOnSet ==
    /\ op.kind = "set"
    /\ op.char = "On"
    /\ "Dimmable" \in { config[op.acc].homekitServices[i] :
                           i \in DOMAIN config[op.acc].homekitServices }
    /\ cb = <<Done(Undef)>>

\* C40: a set of On=true on a READY dimmable light issues one command whose
\* level is in 1..99 and is the current Brightness value, with 100 mapped to
\* 99, never 0, for every Brightness value; a set of On=false issues level 0.
C40_DimmableOnLevel ==
    DimmableOnSet =>
        LET brightness == chars[op.acc]["Brightness"]
        IN /\ Len(cmds) = 1
           /\ IF JsBoolean(op.arg).b
              THEN /\ cmds[1].value.t = "num"
                   /\ cmds[1].value.n \in 1..99
                   /\ cmds[1].value =
                         IF brightness = N(100) THEN N(99) ELSE brightness
              ELSE cmds[1].value = N(0)

=============================================================================
